---- MODULE Spec2Model ----
(***************************************************************************)
(* State-machine model of the terminal simulator:                          *)
(*   - the in-memory filesystem tree and its operations (fileSystem.ts),   *)
(*   - the command interpreter executeCommand and the seed command (App),  *)
(*   - the line editor of the Terminal component (Terminal.tsx).           *)
(* Strings are TLA+ strings; JavaScript string methods are operators that  *)
(* compute on them character by character.  Array indices kept in state    *)
(* (historyIndex, searchIndex) are the 0-based JavaScript values.          *)
(* A children object is a plain JavaScript object: looking a name up in it *)
(* also finds what the object inherits from Object.prototype.              *)
(***************************************************************************)
EXTENDS Integers, Sequences, FiniteSets, TLC

VARIABLES
    history,        \* App: useState<HistoryItem[]>
    isLoading,      \* App: useState<boolean>, the busy flag
    cwd,            \* App: useState('/home/kali')
    initialCommandRun, \* App: useRef(false), guards the seed command
    fileSystem,     \* fileSystem.ts: the module-level tree, path |-> node
    inflight,       \* the suspended executeCommand / runInitialCommand calls
    input,          \* Terminal: useState(''), the input buffer
    isSearching,    \* Terminal: useState(false)
    searchQuery,    \* Terminal: useState('')
    searchIndex,    \* Terminal: useRef<number>(0)
    lastEvent       \* the handler that ran last and the argument it was given

vars == <<history, isLoading, cwd, initialCommandRun, fileSystem, inflight,
          input, isSearching, searchQuery, searchIndex, lastEvent>>

(***************************************************************************)
(* Bounds of the model.                                                    *)
(***************************************************************************)
MaxCommands == 1     \* command entries in history beyond which only clear is typed
MaxGitCommands == 2  \* the same, in the runs of the streaming simulators
MaxAllCommands == 1  \* the same, in the runs over every interpreter path
MaxCreated == 1      \* directories created by mkdir / git clone in one run
MaxLiveHistory == 2  \* entries of history after a submission, in the runs with fairness
MaxRoundCommands == 3     \* command entries in history, in the runs of mkdir, cd, pwd
MaxTreeCommands == 1      \* the same, in the runs of the built-ins from any directory
MaxDispatchCommands == 1  \* the same, in the runs over the dispatch of a line
MaxClearCommands == 2     \* the same, in the runs of clear
MaxCommitCommands == 1    \* the same, in the runs of git commit
MaxSearchCommands == 3    \* the same, in the runs of the reverse search
MaxQuery == 2             \* characters of the search query
MaxTabCommands == 2       \* command entries in history, in the runs of Tab
MaxLsCommands == 3        \* the same, in the runs of ls
MaxBlankCommands == 2     \* the same, in the runs of blank lines
MaxLogCommands == 3       \* the same, in the runs of the command log
MaxCloneCommands == 2     \* the same, in the runs of the clone names
MaxFlightCommands == 2    \* the same, in the runs of submissions during a clone
MaxKeepCommands == 2      \* the same, in the runs of what the tree keeps
MaxCursorCommands == 3    \* the same, in the runs of the search cursor

(***************************************************************************)
(* JavaScript string methods.                                              *)
(***************************************************************************)
\* the member of a one-element set; Only({e(x) : x \in {v}}) is e(v) with v
\* computed once
Only(S) == CHOOSE v \in S : TRUE

charAt(s, i) == SubSeq(s, i, i)

isSpace(c) == c \in {" ", "\t", "\n"}

startsWith(s, p) == Len(s) >= Len(p) /\ SubSeq(s, 1, Len(p)) = p

endsWith(s, p) == Len(s) >= Len(p) /\ SubSeq(s, Len(s) - Len(p) + 1, Len(s)) = p

\* the first place at or after i (1-based) where p occurs in s, 0 when there is none
RECURSIVE indexFrom(_, _, _)
indexFrom(s, p, i) ==
    IF i + Len(p) - 1 > Len(s) THEN 0
    ELSE IF SubSeq(s, i, i + Len(p) - 1) = p THEN i
    ELSE indexFrom(s, p, i + 1)

\* String.prototype.indexOf, 1-based, 0 when absent
indexOf(s, p) == indexFrom(s, p, 1)

\* the last place at or before i (1-based) where p occurs in s, 0 when there is none
RECURSIVE lastIndexFrom(_, _, _)
lastIndexFrom(s, p, i) ==
    IF i < 1 THEN 0
    ELSE IF SubSeq(s, i, i + Len(p) - 1) = p THEN i
    ELSE lastIndexFrom(s, p, i - 1)

\* String.prototype.lastIndexOf, 1-based, 0 when absent
lastIndexOf(s, p) == lastIndexFrom(s, p, Len(s) - Len(p) + 1)

includes(s, p) == indexOf(s, p) # 0

\* String.prototype.replace with a string pattern: the first occurrence only
replaceFirst(s, p, r) ==
    LET i == indexOf(s, p)
    IN IF i = 0 THEN s
       ELSE SubSeq(s, 1, i - 1) \o r \o SubSeq(s, i + Len(p), Len(s))

\* the first place at or after i that holds no whitespace (Len(s) + 1 when none)
RECURSIVE skipSpaces(_, _)
skipSpaces(s, i) ==
    IF i <= Len(s) /\ isSpace(charAt(s, i)) THEN skipSpaces(s, i + 1) ELSE i

\* the last place at or before i that holds no whitespace (0 when none)
RECURSIVE skipSpacesBack(_, _)
skipSpacesBack(s, i) ==
    IF i >= 1 /\ isSpace(charAt(s, i)) THEN skipSpacesBack(s, i - 1) ELSE i

trim(s) == SubSeq(s, skipSpaces(s, 1), skipSpacesBack(s, Len(s)))

LowerOf ==
    [c \in {"A", "B", "C", "D", "E", "F", "G", "H", "I", "J", "K", "L", "M", "N", "O", "P",
             "Q", "R", "S", "T", "U", "V", "W", "X", "Y", "Z"} |->
        CASE c = "A" -> "a" [] c = "B" -> "b" [] c = "C" -> "c" [] c = "D" -> "d"
          [] c = "E" -> "e" [] c = "F" -> "f" [] c = "G" -> "g" [] c = "H" -> "h"
          [] c = "I" -> "i" [] c = "J" -> "j" [] c = "K" -> "k" [] c = "L" -> "l"
          [] c = "M" -> "m" [] c = "N" -> "n" [] c = "O" -> "o" [] c = "P" -> "p"
          [] c = "Q" -> "q" [] c = "R" -> "r" [] c = "S" -> "s" [] c = "T" -> "t"
          [] c = "U" -> "u" [] c = "V" -> "v" [] c = "W" -> "w" [] c = "X" -> "x"
          [] c = "Y" -> "y" [] OTHER -> "z"]

lowerChar(c) == IF c \in DOMAIN LowerOf THEN LowerOf[c] ELSE c

RECURSIVE lowerFrom(_, _)
lowerFrom(s, i) ==
    IF i > Len(s) THEN "" ELSE lowerChar(charAt(s, i)) \o lowerFrom(s, i + 1)

toLowerCase(s) == lowerFrom(s, 1)

\* s.split(sep) for a non-empty string separator: the pieces, empty ones included
RECURSIVE split(_, _)
split(s, sep) ==
    LET i == indexOf(s, sep)
    IN IF i = 0 THEN <<s>>
       ELSE <<SubSeq(s, 1, i - 1)>> \o split(SubSeq(s, i + Len(sep), Len(s)), sep)

\* s.split(/\s+/): the pieces between maximal runs of whitespace, from place i on
RECURSIVE wordEnd(_, _)
wordEnd(s, i) ==
    IF i <= Len(s) /\ ~isSpace(charAt(s, i)) THEN wordEnd(s, i + 1) ELSE i

RECURSIVE splitWsFrom(_, _)
splitWsFrom(s, i) ==
    LET e == wordEnd(s, i)
    IN IF e > Len(s) THEN <<SubSeq(s, i, Len(s))>>
       ELSE <<SubSeq(s, i, e - 1)>> \o splitWsFrom(s, skipSpaces(s, e))

splitWhitespace(s) == splitWsFrom(s, 1)

\* arr.filter(p => p): drop the empty strings
RECURSIVE filterNonEmpty(_)
filterNonEmpty(a) ==
    IF a = <<>> THEN <<>>
    ELSE IF Head(a) = "" THEN filterNonEmpty(Tail(a))
         ELSE <<Head(a)>> \o filterNonEmpty(Tail(a))

RECURSIVE join(_, _)
join(a, sep) ==
    IF a = <<>> THEN ""
    ELSE IF Len(a) = 1 THEN a[1]
         ELSE a[1] \o sep \o join(Tail(a), sep)

\* arr.pop(): the array without its last element (unchanged when empty)
pop(a) == IF a = <<>> THEN <<>> ELSE SubSeq(a, 1, Len(a) - 1)

(***************************************************************************)
(* The filesystem tree (fileSystem.ts).  The tree maps the path of every   *)
(* node, a sequence of child names from the root, to the node; the root is *)
(* the empty path.  ord is the position of the node among the keys of its  *)
(* parent's children object (insertion order).                             *)
(***************************************************************************)
DirNode(n) == [type |-> "directory", content |-> "", ord |-> n]

FileNode(text, n) == [type |-> "file", content |-> text, ord |-> n]

\* the first lines of the seed chroot.py and the first place where the
\* template literal holds the two characters backslash, n
chrootScriptContent ==
    "#!/bin/python3\n\n# Usage:\nfor Line in Output.split('\\n'):\n    Line = Line.strip()\n"

\* the seed tree; the long file contents are abridged
SeedTree ==
    (<<>> :> DirNode(0))
    @@ (<<"home">> :> DirNode(1))
    @@ (<<"home", "kali">> :> DirNode(2))
    @@ (<<"home", "kali", "README.md">> :>
            FileNode("Welcome to the Kali Linux command simulator!\n\n- Use ls to see files and directories.", 3))
    @@ (<<"home", "kali", "chroot.py">> :> FileNode(chrootScriptContent, 4))
    @@ (<<"home", "kali", "Cyberpunk_QWERTY_(US).xml">> :>
            FileNode("<?xml version=\"1.0\" encoding=\"UTF-8\"?>\n<keyboard_layout/>", 5))
    @@ (<<"home", "kali", "documents">> :> DirNode(6))
    @@ (<<"home", "kali", "documents", "project_plan.txt">> :>
            FileNode("Phase 1: Initial setup.\nPhase 2: Core feature implementation.\nPhase 3: Launch.", 7))
    @@ (<<"home", "kali", "projects">> :> DirNode(8))
    @@ (<<"home", "kali", "projects", "website">> :> DirNode(9))
    @@ (<<"home", "kali", "projects", "website", "index.html">> :>
            FileNode("<h1>Hello, World!</h1>", 10))
    @@ (<<"home", "kali", "projects", "website", "style.css">> :>
            FileNode("body { color: green; }", 11))
    @@ (<<"home", "kali", ".secret_file">> :>
            FileNode("This is a hidden file. You found it!", 12))

\* path.split('/').filter(p => p)
pathParts(path) == filterNonEmpty(split(path, "/"))

\* the segments pushed as they come, the dots among them
resolvePartsKeepDots(currentParts, parts) == currentParts \o parts

RECURSIVE resolveParts(_, _)
resolveParts(currentParts, parts) ==
    IF parts = <<>> THEN currentParts
    ELSE IF Head(parts) = "." THEN resolveParts(currentParts, Tail(parts))
    ELSE IF Head(parts) = ".." THEN resolveParts(pop(currentParts), Tail(parts))
    ELSE resolveParts(Append(currentParts, Head(parts)), Tail(parts))

\* the path appended to the directory, whatever the two are
resolvePathConcat(dir, path) == dir \o "/" \o path

resolvePath(dir, path) ==
    IF ~startsWith(path, "/") /\ path = "~" THEN "/home/kali"
    ELSE LET base == IF startsWith(path, "/") THEN "/" ELSE dir
             currentParts == IF base = "/" THEN <<>> ELSE pathParts(base)
         IN "/" \o join(resolveParts(currentParts, pathParts(path)), "/")

\* the keys every children object inherits from Object.prototype, each
\* holding a function or an object: children[key] is truthy for them
PrototypeKeys ==
    {"constructor", "toString", "toLocaleString", "valueOf", "hasOwnProperty",
     "isPrototypeOf", "propertyIsEnumerable", "__proto__", "__defineGetter__",
     "__defineSetter__", "__lookupGetter__", "__lookupSetter__"}

\* getNode: the walk from the root.  The result says whether the walk
\* returned a value (found), whether that value is a node of the tree (own)
\* or a member of Object.prototype, and where the node is in the tree (at).
NotFound == [found |-> FALSE, own |-> FALSE, at |-> <<>>]

Inherited == [found |-> TRUE, own |-> FALSE, at |-> <<>>]

RECURSIVE walk(_, _, _)
walk(fs, currentNode, parts) ==
    IF parts = <<>> THEN [found |-> TRUE, own |-> TRUE, at |-> currentNode]
    ELSE IF fs[currentNode].type # "directory" THEN NotFound
    ELSE IF Append(currentNode, Head(parts)) \in DOMAIN fs
    THEN walk(fs, Append(currentNode, Head(parts)), Tail(parts))
    ELSE IF Head(parts) \in PrototypeKeys
    \* a member of Object.prototype has no type: the walk ends at it or fails
    THEN IF Tail(parts) = <<>> THEN Inherited ELSE NotFound
    ELSE NotFound

getNode(fs, path) == Only({walk(fs, <<>>, parts) : parts \in {pathParts(path)}})

\* node.type, of a value that getNode returned
typeOf(fs, r) == IF r.own THEN fs[r.at].type ELSE "undefined"

isDirectory(fs, r) == r.found /\ typeOf(fs, r) = "directory"

\* parentNode.children[name] = { type: 'directory', children: {} }: the
\* assignment replaces whatever the key held, its subtree included
setDirectory(fs, parentAt, name) ==
    LET d == Append(parentAt, name)
        kept == {q \in DOMAIN fs : ~(Len(q) > Len(d) /\ SubSeq(q, 1, Len(d)) = d)}
        n == IF d \in DOMAIN fs THEN fs[d].ord ELSE Cardinality(DOMAIN fs)
    IN (d :> DirNode(n)) @@ [q \in kept |-> fs[q]]

\* createClonedDirectory: the tree after the call (unchanged when it returns false)
createClonedDirectory(fs, dir, repoName) ==
    Only({LET n == Cardinality(DOMAIN fs)
              d == Append(parentNode.at, repoName)
          IN IF isDirectory(fs, parentNode)
             THEN IF d \in DOMAIN fs \/ repoName \in PrototypeKeys THEN fs
                  ELSE setDirectory(fs, parentNode.at, repoName)
                          @@ (Append(d, ".git") :> DirNode(n + 1))
                          @@ (Append(d, "README.md") :>
                                  FileNode("# " \o repoName
                                           \o "\n\nA repository cloned with the simulator.", n + 2))
                          @@ (Append(d, "src") :> DirNode(n + 3))
                          @@ (Append(Append(d, "src"), "main.js") :>
                                  FileNode("console.log(\"Hello, World!\");", n + 4))
             ELSE fs
          : parentNode \in {getNode(fs, dir)}})

(***************************************************************************)
(* The filesystem built-ins (handleFileSystemCommand).  The result holds   *)
(* the returned string (handled = FALSE stands for the null return), the   *)
(* working directory after the setCwd calls and the tree after the writes. *)
(***************************************************************************)
fsResult(out, dir, fs) == [handled |-> TRUE, output |-> out, cwd |-> dir, fs |-> fs]

\* args[0], "" when it is undefined
firstArg(words) == IF Len(words) >= 2 THEN words[2] ELSE ""

\* cd that sets cwd without looking the target up
cdCommandUnchecked(words, dir, fs) ==
    LET target == IF firstArg(words) # "" THEN firstArg(words) ELSE "/home/kali"
    IN fsResult("", resolvePath(dir, target), fs)

cdCommand(words, dir, fs) ==
    LET target == IF firstArg(words) # "" THEN firstArg(words) ELSE "/home/kali"
        newPath == resolvePath(dir, target)
        node == getNode(fs, newPath)
    IN IF isDirectory(fs, node)
       THEN fsResult("", newPath, fs)
       ELSE fsResult("cd: no such file or directory: " \o target, dir, fs)

\* the places of the children of the node at
childPaths(fs, at) ==
    {q \in DOMAIN fs : Len(q) = Len(at) + 1 /\ SubSeq(q, 1, Len(at)) = at}

\* a and b are strings of digits of one length: a comes before b as a number
RECURSIVE digitsBefore(_, _, _)
digitsBefore(a, b, i) ==
    IF i > Len(a) THEN FALSE
    ELSE IF charAt(a, i) = charAt(b, i) THEN digitsBefore(a, b, i + 1)
    ELSE indexOf("0123456789", charAt(a, i)) < indexOf("0123456789", charAt(b, i))

\* the number that the digits a stand for is below that of the digits b
numberBefore(a, b) == Len(a) < Len(b) \/ (Len(a) = Len(b) /\ digitsBefore(a, b, 1))

\* name is an integer index of a JavaScript object: the canonical decimal
\* form of an integer from 0 to 2^32 - 2
isArrayIndex(name) ==
    /\ name # ""
    /\ \A i \in 1..Len(name) : indexOf("0123456789", charAt(name, i)) > 0
    /\ name = "0" \/ charAt(name, 1) # "0"
    /\ numberBefore(name, "4294967295")

\* the key at q comes before the key at r in Object.keys: integer indices
\* first, in ascending order, then the other names in insertion order
keyBefore(fs, q, r) ==
    LET a == q[Len(q)]
        b == r[Len(r)]
    IN IF isArrayIndex(a) /\ isArrayIndex(b) THEN numberBefore(a, b)
       ELSE IF isArrayIndex(a) THEN TRUE
       ELSE IF isArrayIndex(b) THEN FALSE
       ELSE fs[q].ord < fs[r].ord

\* the keys in insertion order whatever their form
RECURSIVE keysByInsertion(_, _)
keysByInsertion(fs, paths) ==
    IF paths = {} THEN <<>>
    ELSE LET first == CHOOSE q \in paths : \A r \in paths : fs[q].ord <= fs[r].ord
         IN <<first>> \o keysByInsertion(fs, paths \ {first})

RECURSIVE keysInOrder(_, _)
keysInOrder(fs, paths) ==
    IF paths = {} THEN <<>>
    ELSE LET first == CHOOSE q \in paths : \A r \in paths \ {q} : keyBefore(fs, q, r)
         IN <<first>> \o keysInOrder(fs, paths \ {first})

RECURSIVE lsItems(_, _, _)
lsItems(fs, paths, showAll) ==
    IF paths = <<>> THEN <<>>
    ELSE LET q == Head(paths)
             item == q[Len(q)]
         IN IF ~showAll /\ startsWith(item, ".")
            THEN lsItems(fs, Tail(paths), showAll)
            ELSE <<IF fs[q].type = "directory" THEN item \o "/" ELSE item>>
                 \o lsItems(fs, Tail(paths), showAll)

lsCommand(words, dir, fs) ==
    LET node == getNode(fs, dir)
        showAll == \E i \in 2..Len(words) : words[i] = "-a"
    IN IF isDirectory(fs, node)
       THEN fsResult(join(lsItems(fs, keysInOrder(fs, childPaths(fs, node.at)), showAll), "\n"),
                     dir, fs)
       ELSE fsResult("ls: cannot access " \o dir \o ": No such file or directory", dir, fs)

catCommand(words, dir, fs) ==
    LET node == getNode(fs, resolvePath(dir, firstArg(words)))
    IN IF firstArg(words) = "" THEN fsResult("cat: missing operand", dir, fs)
       ELSE IF node.found
            THEN IF typeOf(fs, node) = "file"
                 THEN fsResult(fs[node.at].content, dir, fs)
                 ELSE fsResult("cat: " \o firstArg(words) \o ": Is a directory", dir, fs)
            ELSE fsResult("cat: " \o firstArg(words) \o ": No such file or directory", dir, fs)

\* mkdir that makes the directory without looking at what is there
mkdirUnchecked(words, dir, fs) ==
    LET at == pathParts(resolvePath(dir, firstArg(words)))
    IN IF firstArg(words) = "" \/ at = <<>> THEN fsResult("mkdir: missing operand", dir, fs)
       ELSE fsResult("", dir, setDirectory(fs, pop(at), at[Len(at)]))

mkdirCommand(words, dir, fs) ==
    LET targetPath == firstArg(words)
        fullPath == resolvePath(dir, targetPath)
        nodeExists == getNode(fs, fullPath)
        slash == lastIndexOf(fullPath, "/")
        parentPath == IF SubSeq(fullPath, 1, slash - 1) # ""
                      THEN SubSeq(fullPath, 1, slash - 1) ELSE "/"
        newDirName == SubSeq(fullPath, slash + 1, Len(fullPath))
        parentNode == getNode(fs, parentPath)
    IN IF targetPath = "" THEN fsResult("mkdir: missing operand", dir, fs)
       ELSE IF nodeExists.found
       THEN fsResult("mkdir: cannot create directory '" \o targetPath \o "': File exists", dir, fs)
            \* (the source quotes the argument with typographic quotes)
       ELSE IF newDirName = ""
       THEN fsResult("mkdir: cannot create directory '" \o targetPath \o "': Invalid argument", dir, fs)
       ELSE IF isDirectory(fs, parentNode)
       THEN fsResult("", dir, setDirectory(fs, parentNode.at, newDirName))
       ELSE fsResult("mkdir: cannot create directory '" \o targetPath
                     \o "': No such file or directory", dir, fs)

TermuxShebang == "#!/data/data/com.termux/files/usr/bin/python3"

\* the separator of the source's split('\\n') and join('\\n'): backslash, n
ShebangSeparator == "\\n"

fixShebangCommand(words, dir, fs) ==
    LET fileName == firstArg(words)
        node == getNode(fs, resolvePath(dir, fileName))
        lines == split(fs[node.at].content, ShebangSeparator)
        newLines == <<TermuxShebang>> \o Tail(lines)
    IN IF fileName = "" THEN fsResult("usage: termux-fix-shebang <file>", dir, fs)
       ELSE IF ~node.found
       THEN fsResult("termux-fix-shebang: file not found: " \o fileName, dir, fs)
       ELSE IF typeOf(fs, node) # "file"
       THEN fsResult("termux-fix-shebang: not a file: " \o fileName, dir, fs)
       ELSE IF startsWith(lines[1], "#!")
       THEN fsResult("shebang of " \o fileName \o " has been rewritten from '" \o lines[1]
                         \o "' to '" \o newLines[1] \o "'",
                     dir,
                     [fs EXCEPT ![node.at].content = join(newLines, ShebangSeparator)])
       ELSE fsResult(fileName \o " does not have a shebang or is empty.", dir, fs)

handleFileSystemCommand(fullCommand, dir, fs) ==
    LET words == splitWhitespace(fullCommand)
        command == toLowerCase(words[1])
    IN CASE command = "pwd" -> fsResult(dir, dir, fs)
         [] command = "cd" -> cdCommand(words, dir, fs)
         [] command = "ls" -> lsCommand(words, dir, fs)
         [] command = "cat" -> catCommand(words, dir, fs)
         [] command = "mkdir" -> mkdirCommand(words, dir, fs)
         [] command = "whoami" -> fsResult("kali", dir, fs)
         [] command = "termux-fix-shebang" -> fixShebangCommand(words, dir, fs)
         [] OTHER -> [handled |-> FALSE, output |-> "", cwd |-> dir, fs |-> fs]

(***************************************************************************)
(* Math.random().  A stream names one run of the generator; random gives   *)
(* its k-th draw in thousandths, so Math.floor(Math.random() * n) is       *)
(* floorRandom.                                                            *)
(***************************************************************************)
RandomStreams == {"low", "high", "mixed"}

random(stream, k) ==
    CASE stream = "low" -> 0
      [] stream = "high" -> 999
      [] OTHER -> (k * 377 + 123) % 1000

floorRandom(stream, k, n) == (random(stream, k) * n) \div 1000

HexDigits == "0123456789abcdef"

\* the digits taken from '0123456789ABCDEF'
RECURSIVE hexStringUpper(_, _, _)
hexStringUpper(stream, first, len) ==
    IF len = 0 THEN ""
    ELSE charAt("0123456789ABCDEF", floorRandom(stream, first, 16) + 1)
         \o hexStringUpper(stream, first + 1, len - 1)

\* Array.from({length: len}, () => HexDigits[floor(random * 16)]).join('')
\* with the draws numbered from first
RECURSIVE hexString(_, _, _)
hexString(stream, first, len) ==
    IF len = 0 THEN ""
    ELSE charAt(HexDigits, floorRandom(stream, first, Len(HexDigits)) + 1)
         \o hexString(stream, first + 1, len - 1)

(***************************************************************************)
(* History entries and the scripted git simulators (App.executeCommand).   *)
(***************************************************************************)
commandItem(text) == [type |-> "command", content |-> text]

outputItem(text) == [type |-> "output", content |-> text]

\* (the source sets help between backquotes)
InitialHistory ==
    << outputItem("Welcome to Linux Command Simulator!"),
       outputItem("Type 'help' for a list of commands."),
       outputItem("") >>

\* trimmedCommand.split(/\s+/)[2], "" when undefined
repoUrlOf(trimmedCommand) ==
    LET words == splitWhitespace(trimmedCommand)
    IN IF Len(words) >= 3 THEN words[3] ELSE ""

\* repoUrl.split('/').pop()?.replace('.git', '') || 'repository'
repoNameOf(repoUrl) ==
    LET pieces == split(repoUrl, "/")
        name == replaceFirst(pieces[Len(pieces)], ".git", "")
    IN IF name = "" THEN "repository" ELSE name

cloneProgressLines ==
    << "remote: Enumerating objects: 23, done.",
       "remote: Counting objects: 100% (23/23), done.",
       "remote: Compressing objects: 100% (13/13), done.",
       "remote: Total 23 (delta 5), reused 20 (delta 5), pack-reused 0",
       "Receiving objects: 100% (23/23), 4.68 KiB | 4.68 MiB/s, done.",
       "Resolving deltas: 100% (5/5), done." >>

\* the index without the + 1 for the command just added
staleHistoryIndex(h) == Len(h)

\* const historyIndex = history.length + 1, h being the history the callback closed over
streamHistoryIndex(h) == Len(h) + 1

\* The suspended call of a streaming simulator or of the external responder:
\* the locals it holds across its awaits.
Task(kind, args, h, output, lines, dir, repoName) ==
    [kind |-> kind, args |-> args, historyIndex |-> streamHistoryIndex(h),
     currentOutput |-> output, pending |-> lines, cwd |-> dir, repoName |-> repoName]

\* the value executeCommand leaves behind when it returns or first awaits
execResult(h, loading, dir, fs, tasks) ==
    [history |-> h, isLoading |-> loading, cwd |-> dir, fs |-> fs, spawn |-> tasks]

\* git clone without the check of lines 80-84
gitCloneUnchecked(trimmedCommand, h, dir, fs) ==
    LET repoName == repoNameOf(repoUrlOf(trimmedCommand))
        initialOutput == "Cloning into '" \o repoName \o "'..."
    IN execResult(Append(Append(h, commandItem(trimmedCommand)), outputItem(initialOutput)),
                  TRUE, dir, fs,
                  {Task("clone", <<>>, h, initialOutput, cloneProgressLines, dir, repoName)})

\* git clone without the test of lines 72-76
gitCloneWithoutUrlTest(trimmedCommand, h, dir, fs) ==
    LET repoName == repoNameOf(repoUrlOf(trimmedCommand))
        initialOutput == "Cloning into '" \o repoName \o "'..."
        h1 == Append(h, commandItem(trimmedCommand))
    IN IF getNode(fs, dir \o "/" \o repoName).found
       THEN execResult(Append(h1, outputItem("fatal: destination path '" \o repoName
                           \o "' already exists and is not an empty directory.")),
                       FALSE, dir, fs, {})
       ELSE execResult(Append(h1, outputItem(initialOutput)), TRUE, dir, fs,
                       {Task("clone", <<>>, h, initialOutput, cloneProgressLines, dir, repoName)})

gitClone(trimmedCommand, h, dir, fs) ==
    LET repoUrl == repoUrlOf(trimmedCommand)
        repoName == repoNameOf(repoUrl)
        initialOutput == "Cloning into '" \o repoName \o "'..."
        h1 == Append(h, commandItem(trimmedCommand))
    IN IF repoUrl = ""
       THEN execResult(Append(h1, outputItem("fatal: You must specify a repository to clone.")),
                       FALSE, dir, fs, {})
       ELSE IF getNode(fs, dir \o "/" \o repoName).found
       THEN execResult(Append(h1, outputItem("fatal: destination path '" \o repoName
                           \o "' already exists and is not an empty directory.")),
                       FALSE, dir, fs, {})
       ELSE execResult(Append(h1, outputItem(initialOutput)), TRUE, dir, fs,
                       {Task("clone", <<>>, h, initialOutput, cloneProgressLines, dir, repoName)})

\* one alternative of commitRegex tried at position i: -m\s+q([^q]+)q
commitMatchAt(s, i, q) ==
    LET j == skipSpaces(s, i + 2)
        rest == SubSeq(s, j + 1, Len(s))
        close == indexOf(rest, q)
    IN IF i + 1 <= Len(s) /\ SubSeq(s, i, i + 1) = "-m" /\ j > i + 2
          /\ j <= Len(s) /\ charAt(s, j) = q /\ close > 1
       THEN SubSeq(rest, 1, close - 1)
       ELSE ""

\* trimmedCommand.match(commitRegex): match[1] || match[2] of the leftmost
\* match, "" when there is no match
RECURSIVE commitMessageFrom(_, _)
commitMessageFrom(s, i) ==
    IF i > Len(s) THEN ""
    ELSE IF commitMatchAt(s, i, "\"") # "" THEN commitMatchAt(s, i, "\"")
    ELSE IF commitMatchAt(s, i, "'") # "" THEN commitMatchAt(s, i, "'")
    ELSE commitMessageFrom(s, i + 1)

commitMessage(s) == commitMessageFrom(s, 1)

\* commitRegex matches somewhere in s.  ([^q]+) takes one character at
\* least, so the message of a match is never empty
commitMatches(s) ==
    \E i \in 1..Len(s), q \in {"\"", "'"} : commitMatchAt(s, i, q) # ""

gitCommit(trimmedCommand, h, dir, fs, stream) ==
    LET message == commitMessage(trimmedCommand)
        commitHash == hexString(stream, 1, 7)
        filesChanged == floorRandom(stream, 8, 3) + 1
        insertions == floorRandom(stream, 9, 20) + 1
        h1 == Append(h, commandItem(trimmedCommand))
    IN IF ~commitMatches(trimmedCommand)
       THEN execResult(Append(h1, outputItem(
                "fatal: You must specify a commit message with -m \"<message>\"")),
                FALSE, dir, fs, {})
       ELSE IF message = ""
       THEN execResult(Append(h1, outputItem("fatal: commit message is empty.")),
                       FALSE, dir, fs, {})
       ELSE execResult(Append(h1, outputItem(
                "[main " \o commitHash \o "] " \o message \o "\n " \o ToString(filesChanged)
                \o " file changed, " \o ToString(insertions) \o " insertions(+)")),
                FALSE, dir, fs, {})

commitMessages ==
    << "feat: Implement user authentication",
       "fix: Correct rendering issue on Firefox",
       "docs: Update README with installation instructions",
       "refactor: Simplify component logic",
       "chore: Bump dependency versions" >>

\* new Date(Date.now() - Math.random() * 31536000000).toUTCString(): the
\* instant is kept as the number of days before now
dateString(stream, k) == "now-" \o ToString(floorRandom(stream, k, 365)) \o "d"

\* generateCommit for the i-th record (0-based); its draws start at first
generateCommit(stream, first, i) ==
    LET message == commitMessages[floorRandom(stream, first, Len(commitMessages)) + 1]
        hash == hexString(stream, first + 1, 40)
        commitLine == "commit " \o hash
                      \o (IF i = 0 THEN " (HEAD -> main, origin/main)" ELSE "")
    IN join(<<commitLine, "Author: Kali User <kali@example.com>",
              "Date:   " \o dateString(stream, first + 41), "", "    " \o message>>, "\n")

RECURSIVE logRecords(_, _, _)
logRecords(stream, i, count) ==
    IF i = count THEN <<>>
    ELSE <<generateCommit(stream, 2 + 42 * i, i)>> \o logRecords(stream, i + 1, count)

gitLog(trimmedCommand, h, dir, fs, stream) ==
    LET count == floorRandom(stream, 1, 3) + 3
        logOutput == join(logRecords(stream, 0, count), "\n\n")
    IN execResult(Append(Append(h, commandItem(trimmedCommand)), outputItem(logOutput)),
                  FALSE, dir, fs, {})

fictionalFiles ==
    << [name |-> "src/main.js", oldContent |-> "console.log(\"Hello, World!\");",
        newContent |-> "console.log(\"Hello, Git!\");\n+const version = \"1.1\";"],
       [name |-> "README.md", oldContent |-> "A repository cloned with the simulator.",
        newContent |-> "A repository for the awesome simulator project."] >>

gitDiff(trimmedCommand, h, dir, fs, stream) ==
    LET randomFile == fictionalFiles[floorRandom(stream, 1, Len(fictionalFiles)) + 1]
        oldLinesCount == Len(split(randomFile.oldContent, "\n"))
        newLinesCount == Len(split(randomFile.newContent, "\n"))
        commitHash1 == hexString(stream, 2, 7)
        commitHash2 == hexString(stream, 9, 7)
        output == join(<<"diff --git a/" \o randomFile.name \o " b/" \o randomFile.name,
                         "index " \o commitHash1 \o ".." \o commitHash2 \o " 100644",
                         "--- a/" \o randomFile.name,
                         "+++ b/" \o randomFile.name,
                         "@@ -1," \o ToString(oldLinesCount) \o " +1,"
                             \o ToString(newLinesCount) \o " @@",
                         "-" \o randomFile.oldContent,
                         "+" \o randomFile.newContent>>, "\n")
    IN execResult(Append(Append(h, commandItem(trimmedCommand)), outputItem(output)),
                  FALSE, dir, fs, {})

fetchProgressLines(stream) ==
    LET objectsCount == floorRandom(stream, 1, 10) + 5
        deltaCount == floorRandom(stream, 2, 5)
        totalCount == objectsCount - deltaCount
        oldHash == hexString(stream, 3, 7)
        newHash == hexString(stream, 10, 7)
        o == ToString(objectsCount)
        half == ToString(objectsCount \div 2)
        t == ToString(totalCount)
        d == ToString(deltaCount)
    IN << "remote: Enumerating objects: " \o o \o ", done.",
          "remote: Counting objects: 100% (" \o o \o "/" \o o \o "), done.",
          "remote: Compressing objects: 100% (" \o half \o "/" \o half \o "), done.",
          "remote: Total " \o t \o " (delta " \o d \o "), reused " \o t \o " (delta " \o d
              \o "), pack-reused 0",
          "Unpacking objects: 100% (" \o t \o "/" \o t \o "), done.",
          "From github.com:example/repository.git",
          "   " \o oldHash \o ".." \o newHash \o "  main       -> origin/main" >>

gitFetch(trimmedCommand, h, dir, fs, stream) ==
    execResult(Append(Append(h, commandItem(trimmedCommand)), outputItem("Fetching origin")),
               TRUE, dir, fs,
               {Task("fetch", <<>>, h, "Fetching origin", fetchProgressLines(stream), dir, "")})

\* the built-ins without the return of line 250: the external responder is
\* called for every line
builtinThenExternal(trimmedCommand, h, dir, fs) ==
    LET r == handleFileSystemCommand(trimmedCommand, dir, fs)
        h1 == Append(h, commandItem(trimmedCommand))
    IN execResult(IF r.handled /\ r.output # "" THEN Append(h1, outputItem(r.output)) ELSE h1,
                  TRUE, r.cwd, r.fs,
                  {Task("external", <<trimmedCommand>>, h, "", <<>>, dir, "")})

\* the built-ins, and the external responder when the line is none of them
builtinOrExternal(trimmedCommand, h, dir, fs) ==
    LET r == handleFileSystemCommand(trimmedCommand, dir, fs)
        h1 == Append(h, commandItem(trimmedCommand))
    IN IF r.handled
       THEN execResult(IF r.output # "" THEN Append(h1, outputItem(r.output)) ELSE h1,
                       FALSE, r.cwd, r.fs, {})
       ELSE execResult(h1, TRUE, dir, fs,
                       {Task("external", <<trimmedCommand>>, h, "", <<>>, dir, "")})

\* executeCommand without lines 63-67 and without the git simulators
executeWithoutClear(command, h, loading, dir, fs, stream) ==
    IF trim(command) = "" THEN execResult(h, loading, dir, fs, {})
    ELSE builtinOrExternal(trim(command), h, dir, fs)

\* executeCommand with the test of line 58 made on the line as typed
executeUntrimmedTest(command, h, loading, dir, fs, stream) ==
    LET trimmedCommand == trim(command)
    IN IF command = "" THEN execResult(h, loading, dir, fs, {})
       ELSE IF toLowerCase(trimmedCommand) = "clear" THEN execResult(<<>>, FALSE, dir, fs, {})
       ELSE IF startsWith(trimmedCommand, "git clone") THEN gitClone(trimmedCommand, h, dir, fs)
       ELSE IF startsWith(trimmedCommand, "git commit")
       THEN gitCommit(trimmedCommand, h, dir, fs, stream)
       ELSE IF toLowerCase(trimmedCommand) = "git log"
       THEN gitLog(trimmedCommand, h, dir, fs, stream)
       ELSE IF toLowerCase(trimmedCommand) = "git diff"
       THEN gitDiff(trimmedCommand, h, dir, fs, stream)
       ELSE IF toLowerCase(trimmedCommand) = "git fetch"
       THEN gitFetch(trimmedCommand, h, dir, fs, stream)
       ELSE builtinOrExternal(trimmedCommand, h, dir, fs)

\* executeCommand up to its return or its first await.  h and dir are the
\* history and cwd of the render whose callback runs.
executeCommand(command, h, loading, dir, fs, stream) ==
    LET trimmedCommand == trim(command)
    IN IF trimmedCommand = "" THEN execResult(h, loading, dir, fs, {})
       ELSE IF toLowerCase(trimmedCommand) = "clear" THEN execResult(<<>>, FALSE, dir, fs, {})
       ELSE IF startsWith(trimmedCommand, "git clone") THEN gitClone(trimmedCommand, h, dir, fs)
       ELSE IF startsWith(trimmedCommand, "git commit")
       THEN gitCommit(trimmedCommand, h, dir, fs, stream)
       ELSE IF toLowerCase(trimmedCommand) = "git log"
       THEN gitLog(trimmedCommand, h, dir, fs, stream)
       ELSE IF toLowerCase(trimmedCommand) = "git diff"
       THEN gitDiff(trimmedCommand, h, dir, fs, stream)
       ELSE IF toLowerCase(trimmedCommand) = "git fetch"
       THEN gitFetch(trimmedCommand, h, dir, fs, stream)
       ELSE builtinOrExternal(trimmedCommand, h, dir, fs)

(***************************************************************************)
(* The line editor (Terminal.tsx).                                         *)
(***************************************************************************)
commands ==
    << "ls", "pwd", "whoami", "neofetch", "apt update",
       "apt install", "ping", "help", "clear", "cd", "cat", "mkdir",
       "git status", "git log", "git clone", "git push", "git pull", "git branch",
       "git commit", "git diff", "git fetch",
       "termux-fix-shebang" >>

\* history.filter(item => item.type === 'command').map(item => item.content)
RECURSIVE commandLog(_)
commandLog(h) ==
    IF h = <<>> THEN <<>>
    ELSE IF Head(h).type = "command" THEN <<Head(h).content>> \o commandLog(Tail(h))
         ELSE commandLog(Tail(h))

\* commandHistory.current, refreshed by the effect that follows every render
commandHistory == commandLog(history)

\* commands.filter(cmd => cmd.includes(trimmedInput))
matchesAnywhere(list, trimmedInput) ==
    SelectSeq(list, LAMBDA cmd : includes(cmd, trimmedInput))

\* commands.filter(cmd => cmd.startsWith(trimmedInput))
RECURSIVE matchesOf(_, _)
matchesOf(list, trimmedInput) ==
    IF list = <<>> THEN <<>>
    ELSE IF startsWith(Head(list), trimmedInput)
         THEN <<Head(list)>> \o matchesOf(Tail(list), trimmedInput)
         ELSE matchesOf(Tail(list), trimmedInput)

\* the suggestion pair put before the entries that are there
suggestionsFirst(h, command, suggestions) ==
    <<commandItem(command), outputItem(join(suggestions, "   "))>> \o h

\* handleAutocompleteSuggestions: the history after the call
handleAutocompleteSuggestions(h, command, suggestions) ==
    h \o <<commandItem(command), outputItem(join(suggestions, "   "))>>

\* the loop run from the oldest entry on: for (let i = 0; i < startIndex; i++)
searchFromOldest(log, query, i, buffer, index) ==
    LET found == {k \in 0..i : includes(log[k + 1], query)}
    IN IF found = {} THEN [input |-> buffer, searchIndex |-> index]
       ELSE LET k == CHOOSE x \in found : \A y \in found : x <= y
            IN [input |-> log[k + 1], searchIndex |-> k]

\* performSearch: the input buffer and searchIndex.current after the call;
\* i is the loop variable (0-based), buffer and index the values before
RECURSIVE searchFrom(_, _, _, _, _)
searchFrom(log, query, i, buffer, index) ==
    IF i < 0 THEN [input |-> buffer, searchIndex |-> index]
    ELSE IF includes(log[i + 1], query) THEN [input |-> log[i + 1], searchIndex |-> i]
    ELSE searchFrom(log, query, i - 1, buffer, index)

performSearch(log, query, startIndex, buffer, index) ==
    IF query = "" THEN [input |-> "", searchIndex |-> index]
    ELSE searchFrom(log, query, startIndex - 1, buffer, index)

Event(handler, arg) == [handler |-> handler, arg |-> arg]

AppUnchanged == UNCHANGED <<history, isLoading, cwd, initialCommandRun, fileSystem, inflight>>

SearchUnchanged == UNCHANGED <<isSearching, searchQuery, searchIndex>>

\* the initial state with useState<boolean>(false) for the busy flag
InitNotBusy ==
    /\ history = InitialHistory
    /\ isLoading = FALSE
    /\ cwd = "/home/kali"
    /\ initialCommandRun = FALSE
    /\ fileSystem = SeedTree
    /\ inflight = {}
    /\ input = ""
    /\ isSearching = FALSE
    /\ searchQuery = ""
    /\ searchIndex = 0
    /\ lastEvent = Event("mount", "")

Init ==
    /\ history = InitialHistory
    /\ isLoading = TRUE
    /\ cwd = "/home/kali"
    /\ initialCommandRun = FALSE
    /\ fileSystem = SeedTree
    /\ inflight = {}
    /\ input = ""
    /\ isSearching = FALSE
    /\ searchQuery = ""
    /\ searchIndex = 0
    /\ lastEvent = Event("mount", "")

\* the mount effect: runInitialCommand up to its await
runInitialCommand ==
    /\ ~initialCommandRun
    /\ initialCommandRun' = TRUE
    /\ history' = Append(history, commandItem("neofetch"))
    /\ inflight' = inflight \cup {Task("seed", <<"neofetch">>, history, "", <<>>, cwd, "")}
    /\ lastEvent' = Event("runInitialCommand", "neofetch")
    /\ UNCHANGED <<isLoading, cwd, fileSystem, input>>
    /\ SearchUnchanged

\* disabled={isLoading}: the user can type into the input element, press
\* keys in it and submit from it only while it is enabled
inputEnabled == ~isLoading

handleInputChange(value) ==
    /\ input' = IF isSearching THEN input ELSE value
    /\ lastEvent' = Event("handleInputChange", value)
    /\ AppUnchanged
    /\ SearchUnchanged

\* handleFormSubmit without its first line
submitAlways == TRUE

\* if (isLoading) return
submitAccepted == ~isLoading

\* buffer is the value of the input element when the form is submitted
handleFormSubmit(buffer, stream) ==
    IF submitAccepted
    THEN \E r \in {executeCommand(buffer, history, isLoading, cwd, fileSystem, stream)} :
            /\ history' = r.history
            /\ isLoading' = r.isLoading
            /\ cwd' = r.cwd
            /\ fileSystem' = r.fs
            /\ inflight' = inflight \cup r.spawn
            /\ input' = ""
            /\ isSearching' = FALSE
            /\ searchQuery' = IF isSearching THEN "" ELSE searchQuery
            /\ lastEvent' = Event("handleFormSubmit", buffer)
            /\ UNCHANGED <<initialCommandRun, searchIndex>>
    ELSE /\ lastEvent' = Event("handleFormSubmit rejected", buffer)
         /\ AppUnchanged
         /\ SearchUnchanged
         /\ input' = buffer

\* an updater that appends the text as a new output entry
streamAppend(h, historyIndex, text) == Append(h, outputItem(text))

\* the updater of the streaming loop: write text into newHistory[historyIndex]
streamUpdate(h, historyIndex, text) ==
    IF historyIndex + 1 \in DOMAIN h /\ h[historyIndex + 1].type = "output"
    THEN [h EXCEPT ![historyIndex + 1].content = text]
    ELSE h

\* a timer of the streaming loop fires: the loop body, and after the last
\* line the rest of the call
timerFires(t) ==
    LET currentOutput == t.currentOutput \o "\n" \o Head(t.pending)
        last == Len(t.pending) = 1
    IN /\ t \in inflight
       /\ t.kind \in {"clone", "fetch"}
       /\ history' = streamUpdate(history, t.historyIndex, currentOutput)
       /\ fileSystem' = IF last /\ t.kind = "clone"
                        THEN createClonedDirectory(fileSystem, t.cwd, t.repoName)
                        ELSE fileSystem
       /\ isLoading' = IF last THEN FALSE ELSE isLoading
       /\ inflight' = (inflight \ {t}) \cup
              (IF last THEN {}
               ELSE {[t EXCEPT !.currentOutput = currentOutput, !.pending = Tail(t.pending)]})
       /\ lastEvent' = Event("timerFires", Head(t.pending))
       /\ UNCHANGED <<cwd, initialCommandRun, input>>
       /\ SearchUnchanged

\* simulateCommandOutput resolves with output
responderResolves(t, output) ==
    /\ t \in inflight
    /\ t.kind \in {"seed", "external"}
    /\ history' = Append(history, outputItem(output))
    /\ isLoading' = FALSE
    /\ inflight' = inflight \ {t}
    /\ lastEvent' = Event("responderResolves", output)
    /\ UNCHANGED <<cwd, initialCommandRun, fileSystem, input>>
    /\ SearchUnchanged

\* error instanceof Error ? error.message : 'An unknown error occurred.'
errorMessage(error) ==
    IF error.isError THEN error.message ELSE "An unknown error occurred."

\* the catch block without the finally block after it
responderRejectsNoFinally(t, error) ==
    /\ t \in inflight
    /\ t.kind \in {"seed", "external"}
    /\ history' = Append(history, outputItem("Error: " \o error.message))
    /\ inflight' = inflight \ {t}
    /\ lastEvent' = Event("responderRejects", error.message)
    /\ UNCHANGED <<isLoading, cwd, initialCommandRun, fileSystem, input>>
    /\ SearchUnchanged

\* the rejection propagated raw: no catch block, so nothing is appended and
\* the finally block alone runs
responderRejectsRaw(t, error) ==
    /\ t \in inflight
    /\ t.kind \in {"seed", "external"}
    /\ isLoading' = FALSE
    /\ inflight' = inflight \ {t}
    /\ lastEvent' = Event("responderRejects", errorMessage(error))
    /\ UNCHANGED <<history, cwd, initialCommandRun, fileSystem, input>>
    /\ SearchUnchanged

\* simulateCommandOutput rejects with error
responderRejects(t, error) ==
    /\ t \in inflight
    /\ t.kind \in {"seed", "external"}
    /\ history' = Append(history, outputItem("Error: " \o errorMessage(error)))
    /\ isLoading' = FALSE
    /\ inflight' = inflight \ {t}
    /\ lastEvent' = Event("responderRejects", errorMessage(error))
    /\ UNCHANGED <<cwd, initialCommandRun, fileSystem, input>>
    /\ SearchUnchanged

Key(key, ctrlKey) == [key |-> key, ctrlKey |-> ctrlKey, metaKey |-> FALSE, altKey |-> FALSE]

keyName(e) == (IF e.ctrlKey THEN "Ctrl+" ELSE "") \o e.key

\* handleKeyDown while isSearching, the repeated trigger searching from the
\* end of the log again: performSearch(searchQuery, commandHistory.current.length)
searchKeyDownRestart(e) ==
    LET log == commandHistory
        shorter == SubSeq(searchQuery, 1, Len(searchQuery) - 1)
        longer == searchQuery \o e.key
    IN /\ isSearching
       /\ IF e.ctrlKey /\ e.key = "r"
          THEN LET r == performSearch(log, searchQuery, Len(log), input, searchIndex)
               IN /\ input' = r.input
                  /\ searchIndex' = r.searchIndex
                  /\ UNCHANGED <<isSearching, searchQuery>>
          ELSE IF e.key = "Backspace"
          THEN LET r == performSearch(log, shorter, Len(log), input, Len(log))
               IN /\ input' = r.input
                  /\ searchIndex' = r.searchIndex
                  /\ searchQuery' = shorter
                  /\ UNCHANGED isSearching
          ELSE IF Len(e.key) = 1 /\ ~e.ctrlKey /\ ~e.metaKey /\ ~e.altKey
          THEN LET r == performSearch(log, longer, Len(log), input, Len(log))
               IN /\ input' = r.input
                  /\ searchIndex' = r.searchIndex
                  /\ searchQuery' = longer
                  /\ UNCHANGED isSearching
          ELSE IF e.key = "Escape" \/ startsWith(e.key, "Arrow") \/ e.key = "Enter"
          THEN /\ isSearching' = FALSE
               /\ searchQuery' = ""
               /\ UNCHANGED <<input, searchIndex>>
          ELSE UNCHANGED <<input, isSearching, searchQuery, searchIndex>>
       /\ AppUnchanged

\* handleKeyDown while isSearching
searchKeyDown(e) ==
    LET log == commandHistory
        shorter == SubSeq(searchQuery, 1, Len(searchQuery) - 1)
        longer == searchQuery \o e.key
    IN /\ isSearching
       /\ IF e.ctrlKey /\ e.key = "r"
          THEN LET r == performSearch(log, searchQuery, searchIndex, input, searchIndex)
               IN /\ input' = r.input
                  /\ searchIndex' = r.searchIndex
                  /\ UNCHANGED <<isSearching, searchQuery>>
          ELSE IF e.key = "Backspace"
          THEN LET r == performSearch(log, shorter, Len(log), input, Len(log))
               IN /\ input' = r.input
                  /\ searchIndex' = r.searchIndex
                  /\ searchQuery' = shorter
                  /\ UNCHANGED isSearching
          ELSE IF Len(e.key) = 1 /\ ~e.ctrlKey /\ ~e.metaKey /\ ~e.altKey
          THEN LET r == performSearch(log, longer, Len(log), input, Len(log))
               IN /\ input' = r.input
                  /\ searchIndex' = r.searchIndex
                  /\ searchQuery' = longer
                  /\ UNCHANGED isSearching
          ELSE IF e.key = "Escape" \/ startsWith(e.key, "Arrow") \/ e.key = "Enter"
          THEN /\ isSearching' = FALSE
               /\ searchQuery' = ""
               /\ UNCHANGED <<input, searchIndex>>
          ELSE UNCHANGED <<input, isSearching, searchQuery, searchIndex>>
       /\ AppUnchanged

\* handleKeyDown while not searching, the trigger leaving the input buffer
\* as it is (no setInput(''))
normalKeyDownKeepInput(e) ==
    LET trimmedInput == trim(input)
        matches == matchesOf(commands, trimmedInput)
    IN /\ ~isSearching
       /\ IF e.ctrlKey /\ e.key = "r"
          THEN /\ isSearching' = TRUE
               /\ searchQuery' = ""
               /\ searchIndex' = Len(commandHistory)
               /\ UNCHANGED input
               /\ AppUnchanged
          ELSE IF e.key = "Tab" /\ trimmedInput # "" /\ Len(matches) = 1
          THEN /\ input' = matches[1] \o " "
               /\ AppUnchanged
               /\ SearchUnchanged
          ELSE IF e.key = "Tab" /\ trimmedInput # "" /\ Len(matches) > 1
          THEN /\ history' = handleAutocompleteSuggestions(history, input, matches)
               /\ UNCHANGED <<isLoading, cwd, initialCommandRun, fileSystem, inflight, input>>
               /\ SearchUnchanged
          ELSE /\ AppUnchanged
               /\ SearchUnchanged
               /\ UNCHANGED input

\* handleKeyDown while not searching, the trigger leaving searchIndex.current
\* as the last search left it
normalKeyDownStaleCursor(e) ==
    LET trimmedInput == trim(input)
        matches == matchesOf(commands, trimmedInput)
    IN /\ ~isSearching
       /\ IF e.ctrlKey /\ e.key = "r"
          THEN /\ isSearching' = TRUE
               /\ searchQuery' = ""
               /\ input' = ""
               /\ UNCHANGED searchIndex
               /\ AppUnchanged
          ELSE IF e.key = "Tab" /\ trimmedInput # "" /\ Len(matches) = 1
          THEN /\ input' = matches[1] \o " "
               /\ AppUnchanged
               /\ SearchUnchanged
          ELSE IF e.key = "Tab" /\ trimmedInput # "" /\ Len(matches) > 1
          THEN /\ history' = handleAutocompleteSuggestions(history, input, matches)
               /\ UNCHANGED <<isLoading, cwd, initialCommandRun, fileSystem, inflight, input>>
               /\ SearchUnchanged
          ELSE /\ AppUnchanged
               /\ SearchUnchanged
               /\ UNCHANGED input

\* handleKeyDown while not searching
normalKeyDown(e) ==
    LET trimmedInput == trim(input)
        matches == matchesOf(commands, trimmedInput)
    IN /\ ~isSearching
       /\ IF e.ctrlKey /\ e.key = "r"
          THEN /\ isSearching' = TRUE
               /\ searchQuery' = ""
               /\ input' = ""
               /\ searchIndex' = Len(commandHistory)
               /\ AppUnchanged
          ELSE IF e.key = "Tab" /\ trimmedInput # "" /\ Len(matches) = 1
          THEN /\ input' = matches[1] \o " "
               /\ AppUnchanged
               /\ SearchUnchanged
          ELSE IF e.key = "Tab" /\ trimmedInput # "" /\ Len(matches) > 1
          THEN /\ history' = handleAutocompleteSuggestions(history, input, matches)
               /\ UNCHANGED <<isLoading, cwd, initialCommandRun, fileSystem, inflight, input>>
               /\ SearchUnchanged
          ELSE /\ AppUnchanged
               /\ SearchUnchanged
               /\ UNCHANGED input

handleKeyDown(e) ==
    /\ lastEvent' = Event("handleKeyDown", keyName(e))
    /\ IF isSearching THEN searchKeyDown(e) ELSE normalKeyDown(e)

(***************************************************************************)
(* The environment: what is typed, which keys are pressed, what the        *)
(* external responder answers, and the bounds on the run.                  *)
(***************************************************************************)
ResponderOutputs == {"Available commands: ls, cd, pwd"}

ResponderErrors == {[isError |-> TRUE, message |-> "API key not valid"],
                    [isError |-> FALSE, message |-> ""]}

\* the directories made by mkdir and git clone since the seed tree
createdDirectories(fs) ==
    {q \in DOMAIN fs \ DOMAIN SeedTree :
        fs[q].type = "directory" /\ q[Len(q)] \notin {".git", "src"}}

\* the run stays within the bounds: maxCommands command entries in history,
\* MaxCreated directories made or being made
withinBounds(h, fs, tasks, maxCommands) ==
    /\ Len(commandLog(h)) <= maxCommands
    /\ Cardinality(createdDirectories(fs))
           + Cardinality({t \in tasks : t.kind = "clone"}) <= MaxCreated

\* a line is typed and left in the input buffer
typeLine(value, maxCommands) ==
    /\ inputEnabled
    /\ Len(commandLog(history)) < maxCommands
    /\ handleInputChange(value)

\* the form is submitted.  The user submits what the input buffer holds, or
\* types a line and submits it at once (the change events and the submit
\* event with nothing between them).  While the input element is disabled
\* only a script submits: it sets the value of the element and calls
\* form.requestSubmit().
submittable(value, lines, busyLines) ==
    IF value = input THEN TRUE
    ELSE IF isSearching THEN FALSE
    ELSE IF inputEnabled THEN value \in lines
    ELSE value \in busyLines

submitLine(value, stream, lines, busyLines, maxCommands) ==
    /\ submittable(value, lines, busyLines)
    /\ handleFormSubmit(value, stream)
    /\ withinBounds(history', fileSystem', inflight', maxCommands)

pressTab(maxCommands) ==
    /\ inputEnabled
    /\ Len(commandLog(history)) < maxCommands
    /\ handleKeyDown(Key("Tab", FALSE))

NextOver(lines, tabLines, busyLines, streams, maxCommands) ==
    \/ runInitialCommand
    \/ \E value \in tabLines : typeLine(value, maxCommands)
    \/ \E value \in lines \cup busyLines \cup {input}, stream \in streams :
           submitLine(value, stream, lines, busyLines, maxCommands)
    \/ pressTab(maxCommands)
    \/ \E t \in inflight : timerFires(t)
    \/ \E t \in inflight, output \in ResponderOutputs : responderResolves(t, output)
    \/ \E t \in inflight, error \in ResponderErrors : responderRejects(t, error)

\* the streaming simulators, clear, the external responder; the prefix gi
\* is left in the buffer for Tab, which answers it with a suggestion pair
GitLines ==
    {"git clone https://example.com/sample.git", "git clone README.md",
     "git clone https://example.com/constructor", "git fetch", "clear", "help"}

Next == NextOver(GitLines, {"gi"}, {"git fetch"}, {"low", "mixed"}, MaxGitCommands)

Spec == Init /\ [][Next]_vars

\* the built-ins that move about the tree and add to it; the prefix who
\* is left in the buffer for Tab, which completes it
FsLines ==
    {"cd", "cd ..", "cd foo", "cd README.md", "mkdir foo", "mkdir constructor",
     "clear", "git fetch"}

NextFs == NextOver(FsLines, {"who"}, {"mkdir foo"}, {"low"}, MaxCommands)

SpecFs == Init /\ [][NextFs]_vars

\* one line for every path through executeCommand
AllLines ==
    {"clear", "git clone https://example.com/sample.git", "git clone",
     "git commit -m \"fix bug\"", "git commit", "git log", "git diff", "git fetch",
     "pwd", "cd foo", "mkdir foo", "termux-fix-shebang chroot.py", "help"}

NextAll == NextOver(AllLines, {"gi"}, {"clear"}, {"low"}, MaxAllCommands)

\* the mount effect runs, every timer of a streaming loop fires, and the
\* external responder settles
Fairness ==
    /\ WF_vars(runInitialCommand)
    /\ WF_vars(\E t \in inflight : timerFires(t))
    /\ WF_vars(\E t \in inflight :
                  \/ \E output \in ResponderOutputs : responderResolves(t, output)
                  \/ \E error \in ResponderErrors : responderRejects(t, error))

SpecAll == Init /\ [][NextAll]_vars /\ Fairness

\* the same lines, typed and submitted by the user, history after a
\* submission being no longer than MaxLiveHistory
NextLive ==
    \/ runInitialCommand
    \/ \E value \in AllLines :
           /\ submitLine(value, "low", AllLines, {}, MaxAllCommands)
           /\ Len(history') <= MaxLiveHistory
    \/ \E t \in inflight : timerFires(t)
    \/ \E t \in inflight, output \in ResponderOutputs : responderResolves(t, output)
    \/ \E t \in inflight, error \in ResponderErrors : responderRejects(t, error)

SpecLive == Init /\ [][NextLive]_vars /\ Fairness

(***************************************************************************)
(* Runs of the built-ins from any directory of the seed tree.  The state   *)
(* they start in is the one that cd into the directory and then clear      *)
(* leave behind.                                                           *)
(***************************************************************************)
SeedDirectories ==
    {"/", "/home", "/home/kali", "/home/kali/documents", "/home/kali/projects",
     "/home/kali/projects/website"}

InitIn(dirs) ==
    /\ history = <<>>
    /\ isLoading = FALSE
    /\ cwd \in dirs
    /\ initialCommandRun = TRUE
    /\ fileSystem = SeedTree
    /\ inflight = {}
    /\ input = ""
    /\ isSearching = FALSE
    /\ searchQuery = ""
    /\ searchIndex = 0
    /\ lastEvent = Event("handleFormSubmit", "clear")

\* a line of lines is typed and submitted at once
NextBuiltins(lines, maxCommands) ==
    \E value \in lines :
        /\ Len(commandLog(history)) < maxCommands
        /\ submitLine(value, "low", lines, {}, maxCommands)

\* mkdir foo, cd foo, pwd in any order
RoundLines == {"mkdir foo", "cd foo", "pwd"}

NextRound == NextBuiltins(RoundLines, MaxRoundCommands)

SpecRound == InitIn(SeedDirectories) /\ [][NextRound]_vars

\* path expressions of one or two segments, relative and absolute, empty
\* segments and the dots among them, and the tilde
PathSegments == {"", ".", "..", "home", "kali", "foo"}

PathExprs ==
    LET relative == PathSegments \cup {a \o "/" \o b : a, b \in PathSegments}
    IN relative \cup {"/" \o e : e \in relative} \cup {"~", "~/foo"}

\* the built-ins that take a path, each with the arguments that tell its
\* outcomes apart
TreeLines ==
    {"cd " \o e : e \in PathExprs}
    \cup {"cat", "cat README.md", "cat README.md/foo", "cat nope", "cat projects",
          "cat constructor", "cat /", "cat /home/kali/projects/website/index.html"}
    \cup {"mkdir", "mkdir /", "mkdir ..", "mkdir .", "mkdir foo", "mkdir foo/",
          "mkdir nope/foo", "mkdir README.md/foo", "mkdir /home/kali/README.md/foo",
          "mkdir /home/kali/projects/new", "mkdir constructor/foo", "MKDIR Foo"}
    \cup {"termux-fix-shebang", "termux-fix-shebang chroot.py",
          "termux-fix-shebang /home/kali/chroot.py", "termux-fix-shebang README.md",
          "termux-fix-shebang /home/kali/README.md", "termux-fix-shebang nope",
          "termux-fix-shebang projects", "termux-fix-shebang /home",
          "termux-fix-shebang constructor"}

NextTree == NextBuiltins(TreeLines, MaxTreeCommands)

SpecTree == InitIn(SeedDirectories) /\ [][NextTree]_vars

\* lines for every stage of the dispatch: clear in several letter cases,
\* the git verbs alone and with further words, the built-ins, other lines
DispatchLines ==
    {"clear", "CLEAR", "  Clear ", "clear all",
     "git clone https://example.com/sample.git", "git clone",
     "git commit -m 'fix bug'", "git commit",
     "git log", "GIT LOG", "git log --oneline", "git diff", "git diff HEAD",
     "git fetch", "git fetch origin", "git status",
     "pwd", "PWD", "cd", "ls", "cat README.md", "mkdir foo", "whoami",
     "termux-fix-shebang chroot.py", "help"}

NextDispatch ==
    \/ \E value \in DispatchLines :
           /\ Len(commandLog(history)) < MaxDispatchCommands
           /\ submitLine(value, "low", DispatchLines, {}, MaxDispatchCommands)
    \/ \E t \in inflight : timerFires(t)
    \/ \E t \in inflight, output \in ResponderOutputs : responderResolves(t, output)
    \/ \E t \in inflight, error \in ResponderErrors : responderRejects(t, error)

SpecDispatch == InitIn({"/", "/home/kali", "/home/kali/projects"}) /\ [][NextDispatch]_vars

\* clear in several spellings, from the mount on, with lines that leave
\* entries, a directory and a streaming loop behind
ClearLines == {"clear", "CLEAR", "  Clear ", "whoami", "mkdir foo", "git fetch", "help"}

NextClear == NextOver(ClearLines, {"gi"}, {"clear"}, {"low"}, MaxClearCommands)

SpecClear == Init /\ [][NextClear]_vars

\* git commit with its message between double and single quotes, without
\* the flag, with the flag and no quoted message, and with other words
\* around the flag; every stream of random draws
CommitLines ==
    {"git commit -m \"fix bug\"", "git commit -m 'fix bug'", "git commit   -m   \"a\"",
     "git commit -a -m 'it is \"done\"'", "git commit-m \"x\"",
     "git commit -m \"\" -m 'second'",
     "git commit", "git commit -a", "git commit -m", "git commit -m fix",
     "git commit -m \"\"", "git commit -m ''", "git commit -m\"fix\"", "git commit -m 'open"}

NextCommit ==
    \E value \in CommitLines, stream \in RandomStreams :
        /\ Len(commandLog(history)) < MaxCommitCommands
        /\ submitLine(value, stream, CommitLines, {}, MaxCommitCommands)

SpecCommit == InitIn(SeedDirectories) /\ [][NextCommit]_vars

(***************************************************************************)
(* Runs of the reverse search: lines are submitted until the command log   *)
(* holds MaxSearchCommands entries, and keys are pressed in the input      *)
(* element at any time.  In search mode the handler cancels the default    *)
(* action of every key (e.preventDefault()), so Enter submits the form     *)
(* only in normal mode; there the submit event follows the key.            *)
(***************************************************************************)
SearchLines == {"ls", "cat a.txt", "ls -a"}

SearchKeys ==
    {Key("r", TRUE), Key("l", FALSE), Key("s", FALSE), Key("Backspace", FALSE),
     Key("Escape", FALSE), Key("ArrowUp", FALSE), Key("Enter", FALSE), Key("Tab", FALSE)}

\* a key goes down in the input element.  Enter in normal mode is left to
\* the browser, which submits the form: that is submitLine of the buffer.
pressKey(e) ==
    /\ inputEnabled
    /\ e.key = "Enter" => isSearching
    /\ (isSearching /\ Len(e.key) = 1 /\ ~e.ctrlKey) => Len(searchQuery) < MaxQuery
    /\ handleKeyDown(e)

\* the form is submitted: with a line typed just before, with the buffer as
\* it is (Enter in normal mode), or by a script while the search is on
\* (form.requestSubmit(), the buffer as it is); or a key goes down
NextSearch ==
    \/ \E value \in SearchLines \cup {input} :
           /\ Len(commandLog(history)) < MaxSearchCommands
           /\ submitLine(value, "low", SearchLines, {}, MaxSearchCommands)
    \/ \E e \in SearchKeys : pressKey(e)

SpecSearch == InitIn({"/home/kali"}) /\ [][NextSearch]_vars

(***************************************************************************)
(* Runs of Tab: text is typed into the input element and keys are pressed  *)
(* in it, in normal mode and in the search.                                *)
(***************************************************************************)
\* empty and blank input, prefixes of several entries of the vocabulary, of
\* one and of none, with and without blanks around them, whole entries
TabInputs ==
    {"", "  ", "gi", "  gi ", "git", "git c", "git s", "git st", "who", " who",
     "whoami", "whoami ", "a", "apt", "apt u", "c", "cl", "t", "zz", "Git", "help me"}

TabKeys == {Key("Tab", FALSE), Key("r", TRUE), Key("g", FALSE), Key("Escape", FALSE)}

NextTab ==
    \/ \E value \in TabInputs : typeLine(value, MaxTabCommands)
    \/ \E e \in TabKeys :
           /\ Len(commandLog(history)) < MaxTabCommands
           /\ pressKey(e)

SpecTab == InitIn({"/home/kali"}) /\ [][NextTab]_vars

(***************************************************************************)
(* Runs of ls: the listing of the seed directories and of directories that *)
(* mkdir and git clone add to, with names that start with a dot and names  *)
(* that are integers.                                                      *)
(***************************************************************************)
LsLines ==
    {"ls", "ls -a", "LS", "ls -la", "ls /home", "mkdir foo", "mkdir .cache", "mkdir 7",
     "cd documents", "cd foo", "git clone https://example.com/sample.git"}

NextLs ==
    \/ \E value \in LsLines :
           /\ Len(commandLog(history)) < MaxLsCommands
           /\ submitLine(value, "low", LsLines, {}, MaxLsCommands)
    \/ \E t \in inflight : timerFires(t)

SpecLs == InitIn({"/home/kali", "/home/kali/projects"}) /\ [][NextLs]_vars

(***************************************************************************)
(* Runs of blank lines: the empty line and lines of spaces and tabs,       *)
(* submitted before, between and after commands, and by a script while a   *)
(* simulator is streaming.                                                 *)
(***************************************************************************)
BlankLines == {"", "   ", " \t ", "whoami", "mkdir foo", "git fetch", "help"}

NextBlank == NextOver(BlankLines, {"gi"}, {"", "   "}, {"low"}, MaxBlankCommands)

SpecBlank == Init /\ [][NextBlank]_vars

(***************************************************************************)
(* Runs of the command log: lines submitted, clear among them, prefixes    *)
(* left in the buffer for Tab, and the reverse search over what the log    *)
(* holds.                                                                  *)
(***************************************************************************)
LogLines == {"whoami", "pwd", "clear"}

LogInputs == {"gi", "who"}

LogKeys == {Key("Tab", FALSE), Key("r", TRUE), Key("g", FALSE), Key("w", FALSE),
            Key("Escape", FALSE)}

NextLog ==
    \/ \E value \in LogInputs : typeLine(value, MaxLogCommands)
    \/ \E value \in LogLines \cup {input} :
           /\ Len(commandLog(history)) < MaxLogCommands
           /\ submitLine(value, "low", LogLines, {}, MaxLogCommands)
    \/ \E e \in LogKeys :
           /\ Len(commandLog(history)) < MaxLogCommands
           /\ pressKey(e)
    \/ \E t \in inflight, output \in ResponderOutputs : responderResolves(t, output)

SpecLog == InitIn({"/home/kali"}) /\ [][NextLog]_vars

(***************************************************************************)
(* Runs of the clone names: git clone without a url, with urls whose last  *)
(* segment is a dot name, is empty, has .git at its end, in its middle or  *)
(* twice, names a seed node or a key of Object.prototype; mkdir of dot     *)
(* names and of paths.                                                     *)
(***************************************************************************)
CloneLines ==
    {"git clone", "git clone .", "git clone ..", "git clone .git",
     "git clone https://example.com/sample.git", "git clone https://example.com/my.github.git",
     "git clone https://example.com/tool.gitlab", "git clone https://example.com/repo/",
     "git clone documents", "git clone https://example.com/constructor",
     "mkdir .", "mkdir ..", "mkdir ./bar", "mkdir foo/", "mkdir a/b"}

NextClone ==
    \/ \E value \in CloneLines :
           /\ Len(commandLog(history)) < MaxCloneCommands
           /\ submitLine(value, "low", CloneLines, {}, MaxCloneCommands)
    \/ \E t \in inflight : timerFires(t)

SpecClone == InitIn({"/home/kali", "/home/kali/projects"}) /\ [][NextClone]_vars

(***************************************************************************)
(* Runs of a clone in flight: while the clone streams a script submits     *)
(* lines that would make the directory of the clone, move away from the    *)
(* working directory, or start the clone again.                            *)
(***************************************************************************)
FlightLines ==
    {"git clone https://example.com/sample.git", "git clone .", "git clone documents",
     "git clone https://example.com/constructor", "mkdir sample", "cd documents"}

FlightBusyLines == {"mkdir sample", "cd documents", "git clone https://example.com/sample.git"}

NextFlight ==
    \/ \E value \in FlightLines \cup FlightBusyLines :
           /\ Len(commandLog(history)) < MaxFlightCommands
           /\ submitLine(value, "low", FlightLines, FlightBusyLines, MaxFlightCommands)
    \/ \E t \in inflight : timerFires(t)

SpecFlight == InitIn({"/home/kali", "/home/kali/projects"}) /\ [][NextFlight]_vars

(***************************************************************************)
(* Runs of what the tree keeps: mkdir and git clone at names that are      *)
(* free, that a file holds and that a directory holds; the shebang of a    *)
(* file with one and of a file without; lines that read the tree; lines    *)
(* that a shell would remove or write with, which go to the responder.     *)
(***************************************************************************)
KeepLines ==
    {"mkdir foo", "mkdir documents", "mkdir README.md", "mkdir README.md/x", "mkdir /",
     "mkdir ../kali",
     "git clone https://example.com/sample.git", "git clone README.md", "git clone documents",
     "git clone https://example.com/kali/..",
     "termux-fix-shebang chroot.py", "termux-fix-shebang README.md",
     "termux-fix-shebang documents",
     "cat chroot.py", "cd documents", "rm -rf documents", "echo x > README.md"}

NextKeep ==
    \/ \E value \in KeepLines :
           /\ Len(commandLog(history)) < MaxKeepCommands
           /\ submitLine(value, "low", KeepLines, {}, MaxKeepCommands)
    \/ \E t \in inflight : timerFires(t)
    \/ \E t \in inflight, output \in ResponderOutputs : responderResolves(t, output)

SpecKeep == InitIn({"/home/kali", "/home"}) /\ [][NextKeep]_vars

(***************************************************************************)
(* Runs of the search cursor: the search entered and left between lines    *)
(* that grow the log, empty it (clear), stream (git fetch) and wait for    *)
(* the responder (help), and after Tab has appended a suggestion pair.     *)
(***************************************************************************)
CursorLines == {"ls", "clear", "git fetch", "help"}

CursorKeys == {Key("r", TRUE), Key("l", FALSE), Key("g", FALSE), Key("Backspace", FALSE),
              Key("Escape", FALSE), Key("Tab", FALSE)}

NextCursor ==
    \/ typeLine("gi", MaxCursorCommands)
    \/ \E value \in CursorLines \cup {input} :
           /\ Len(commandLog(history)) < MaxCursorCommands
           /\ submitLine(value, "low", CursorLines, {}, MaxCursorCommands)
    \/ \E e \in CursorKeys :
           /\ Len(commandLog(history)) < MaxCursorCommands
           /\ pressKey(e)
    \/ \E t \in inflight : timerFires(t)
    \/ \E t \in inflight, output \in ResponderOutputs : responderResolves(t, output)

SpecCursor == InitIn({"/home/kali"}) /\ [][NextCursor]_vars

(***************************************************************************)
(* Steps, as the claims speak of them.  A step is told by lastEvent', the  *)
(* handler that made it; the values a formula uses more than once are      *)
(* bound by \E over a one-element set.                                     *)
(***************************************************************************)
\* this step is handleFormSubmit accepting a line
Accepted == lastEvent'.handler = "handleFormSubmit"

\* this step is a line submitted while busy
SubmittedWhileBusy ==
    isLoading /\ lastEvent'.handler \in {"handleFormSubmit", "handleFormSubmit rejected"}

\* the line the handler was given, trimmed
line == trim(lastEvent'.arg)

\* the first of the words w is v in any letter case
Verb(w, v) == w[1] # "" /\ toLowerCase(w[1]) = v

\* line is a git clone with a url
IsClone(ln) == startsWith(ln, "git clone") /\ repoUrlOf(ln) # ""

\* the place in the tree of the child name of the working directory
childAt(name) == Append(pathParts(cwd), name)

\* a suspended call of a streaming simulator
Streaming(t) == t.kind \in {"clone", "fetch"}

\* this step is a timer of task t firing
TimerStepOf(t) ==
    /\ lastEvent'.handler = "timerFires"
    /\ t \in inflight
    /\ Streaming(t)
    /\ lastEvent'.arg = Head(t.pending)

\* history' is history with entries appended at its end
Grows == Len(history') >= Len(history) /\ SubSeq(history', 1, Len(history)) = history

\* history' is history but for the text of the output entry at place k
TextChangedAt(k) ==
    /\ k \in DOMAIN history
    /\ Len(history') = Len(history)
    /\ history[k].type = "output"
    /\ history' = [history EXCEPT ![k].content = history'[k].content]

\* no step takes a node away or changes one
NodesKept == \A p \in DOMAIN fileSystem : p \in DOMAIN fileSystem' /\ fileSystem'[p] = fileSystem[p]

(***************************************************************************)
(* C1: after any sequence of accepted commands from the seed state, cwd is *)
(* an absolute slash-delimited path and lookup of it returns a directory   *)
(* of the tree.                                                            *)
(***************************************************************************)
C1_CwdIsDirectory ==
    /\ cwd = "/" \o join(pathParts(cwd), "/")
    /\ isDirectory(fileSystem, getNode(fileSystem, cwd))
    /\ getNode(fileSystem, cwd).own

\* cd has moved into a directory that mkdir made
C1_Witness ==
    /\ cwd = "/home/kali/foo"
    /\ lastEvent = Event("handleFormSubmit", "cd foo")

(***************************************************************************)
(* C2: a line submitted while the busy flag is set is rejected: history,   *)
(* cwd, the tree and the set of executions in flight stay as they are and  *)
(* the flag stays set; in every reachable state at most one execution is   *)
(* in flight, and only while the flag is set.                              *)
(***************************************************************************)
C2_BusyRejects ==
    /\ [](Cardinality(inflight) <= 1 /\ (inflight # {} => isLoading))
    /\ [][SubmittedWhileBusy =>
            /\ lastEvent'.handler = "handleFormSubmit rejected"
            /\ history' = history
            /\ cwd' = cwd
            /\ fileSystem' = fileSystem
            /\ inflight' = inflight
            /\ isLoading']_vars

\* git fetch was submitted while a clone was streaming
C2_Witness ==
    /\ isLoading
    /\ lastEvent = Event("handleFormSubmit rejected", "git fetch")
    /\ \E t \in inflight : t.kind = "clone"

(***************************************************************************)
(* C3: the entry a streaming clone or fetch writes to is the output entry  *)
(* appended for that invocation: it is the last entry when the invocation  *)
(* is accepted, it follows the invocation's command entry, it holds what   *)
(* the invocation has written so far, and a timer step changes the text of *)
(* that entry and nothing else of history.                                 *)
(***************************************************************************)
C3_StreamsIntoOwnEntry ==
    /\ [](\A t \in inflight : Streaming(t) =>
            /\ t.historyIndex >= 1
            /\ t.historyIndex + 1 \in DOMAIN history
            /\ history[t.historyIndex + 1] = outputItem(t.currentOutput)
            /\ history[t.historyIndex].type = "command"
            /\ toLowerCase(SubSeq(history[t.historyIndex].content, 1, 9))
                   = (IF t.kind = "clone" THEN "git clone" ELSE "git fetch"))
    /\ [][/\ \A t \in inflight' \ inflight : (Accepted /\ Streaming(t)) =>
                /\ Len(history') = Len(history) + 2
                /\ t.historyIndex + 1 = Len(history')
          /\ \A t \in inflight : TimerStepOf(t) =>
                history' = [history EXCEPT ![t.historyIndex + 1].content =
                                t.currentOutput \o "\n" \o Head(t.pending)]]_vars

\* a clone has streamed its last line into a history that clear emptied and
\* that holds a suggestion pair before the clone's entries
C3_Witness ==
    /\ lastEvent = Event("timerFires", cloneProgressLines[6])
    /\ Len(history) = 4
    /\ history[1] = commandItem("gi")
    /\ history[3].type = "command"

(***************************************************************************)
(* C4: whenever the busy flag is set it is released later, whichever path  *)
(* of the interpreter the accepted line takes, given that the mount effect *)
(* runs, the timers fire and the external responder resolves or rejects.   *)
(***************************************************************************)
C4_BusyReleased == isLoading ~> ~isLoading

\* the external responder has failed for a submitted line and the flag is released
C4_Witness ==
    /\ ~isLoading
    /\ lastEvent.handler = "responderRejects"
    /\ Len(history) = 2
    /\ history[1] = commandItem("help")

(***************************************************************************)
(* C5: an accepted line that is neither empty nor clear appends its        *)
(* command entry and at most one output entry; the external responder      *)
(* appends one output entry directly after the command entry; a timer of a *)
(* streaming loop appends nothing; so no output entry follows another one, *)
(* apart from the three lines of the banner.                               *)
(***************************************************************************)
AppendsCommand(ln) ==
    \/ history' = Append(history, commandItem(ln))
    \/ /\ Len(history') = Len(history) + 2
       /\ SubSeq(history', 1, Len(history) + 1) = Append(history, commandItem(ln))
       /\ history'[Len(history')].type = "output"

C5_OneOutputPerCommand ==
    /\ [](\A i \in 2..Len(history) :
            (history[i].type = "output" /\ history[i - 1].type = "output")
                => (i <= 3 /\ SubSeq(history, 1, 3) = InitialHistory))
    /\ [][/\ Accepted => \E ln \in {line} :
                (ln # "" /\ toLowerCase(ln) # "clear") => AppendsCommand(ln)
          /\ lastEvent'.handler \in {"responderResolves", "responderRejects"} =>
                /\ Len(history') = Len(history) + 1
                /\ SubSeq(history', 1, Len(history)) = history
                /\ history'[Len(history')].type = "output"
                /\ history[Len(history)].type = "command"
          /\ lastEvent'.handler = "timerFires" => Len(history') = Len(history)]_vars

\* a fetch has streamed all its lines: its command entry and one output entry
C5_Witness ==
    /\ ~isLoading
    /\ lastEvent.handler = "timerFires"
    /\ Len(history) = 2
    /\ history[1] = commandItem("git fetch")
    /\ history[2].type = "output"

(***************************************************************************)
(* C6: in every step history keeps its entries and gets entries appended   *)
(* at its end, or is emptied by an accepted clear, or differs only in the  *)
(* text of the output entry of the clone or fetch in flight.               *)
(***************************************************************************)
C6_HistorySteps ==
    [][\/ Grows
       \/ history' = <<>> /\ Accepted /\ toLowerCase(line) = "clear"
       \/ \E t \in inflight : Streaming(t) /\ TextChangedAt(t.historyIndex + 1)]_vars

\* the third line of a clone has been written while the clone is in flight
C6_Witness ==
    /\ isLoading
    /\ lastEvent = Event("timerFires", cloneProgressLines[3])
    /\ \E t \in inflight : t.kind = "clone" /\ Len(t.pending) = 3

(***************************************************************************)
(* C7: git clone of a url whose derived name is no child of the working    *)
(* directory appends the command entry and one output entry with the       *)
(* Cloning into line, sets the busy flag and leaves the tree as it is;     *)
(* each of the six timers appends the next fixed line to that entry,       *)
(* history keeping its length; the first five leave the tree and the flag  *)
(* as they are; the sixth creates the directory with an empty .git,        *)
(* README.md and src/main.js and releases the flag.                        *)
(***************************************************************************)
CloneStarts(ln, name) ==
    /\ history' = history \o <<commandItem(ln), outputItem("Cloning into '" \o name \o "'...")>>
    /\ isLoading'
    /\ fileSystem' = fileSystem
    /\ cwd' = cwd
    /\ \E t \in inflight' \ inflight : t.kind = "clone"

\* the tree fs is fileSystem with the cloned directory added at d
ClonedAt(fs, d) ==
    /\ DOMAIN fs = DOMAIN fileSystem \cup
           {d, Append(d, ".git"), Append(d, "README.md"), Append(d, "src"),
            Append(Append(d, "src"), "main.js")}
    /\ \A p \in DOMAIN fileSystem : fs[p] = fileSystem[p]
    /\ fs[d].type = "directory"
    /\ fs[Append(d, ".git")].type = "directory"
    /\ fs[Append(d, "README.md")].type = "file"
    /\ fs[Append(d, "src")].type = "directory"
    /\ fs[Append(Append(d, "src"), "main.js")].type = "file"

\* the k-th timer of the clone t fires, d being the place of its directory
CloneStreams(t, k, d) ==
    /\ k \in 1..6
    /\ Head(t.pending) = cloneProgressLines[k]
    /\ TextChangedAt(t.historyIndex + 1)
    /\ history'[t.historyIndex + 1].content
           = history[t.historyIndex + 1].content \o "\n" \o cloneProgressLines[k]
    /\ startsWith(history[t.historyIndex + 1].content, "Cloning into '")
    /\ d \notin DOMAIN fileSystem
    /\ isLoading
    /\ IF k < 6
       THEN fileSystem' = fileSystem /\ isLoading'
       ELSE ClonedAt(fileSystem', d) /\ ~isLoading'

CloneTimers ==
    \A t \in inflight : (TimerStepOf(t) /\ t.kind = "clone") =>
        CloneStreams(t, 7 - Len(t.pending), Append(pathParts(t.cwd), t.repoName))

C7_CloneOfNewName ==
    [][/\ Accepted => \E ln \in {line} : IsClone(ln) =>
              \E name \in {repoNameOf(repoUrlOf(ln))} :
                  childAt(name) \notin DOMAIN fileSystem => CloneStarts(ln, name)
       /\ CloneTimers]_vars

\* the same for the names that Object.prototype does not hold
C7_CloneOfOrdinaryName ==
    [][/\ Accepted => \E ln \in {line} : IsClone(ln) =>
              \E name \in {repoNameOf(repoUrlOf(ln))} :
                  (childAt(name) \notin DOMAIN fileSystem /\ name \notin PrototypeKeys)
                      => CloneStarts(ln, name)
       /\ CloneTimers]_vars

\* the clone of sample.git has written its sixth line and made the directory
C7_Witness ==
    /\ lastEvent = Event("timerFires", cloneProgressLines[6])
    /\ ~isLoading
    /\ <<"home", "kali", "sample", "src", "main.js">> \in DOMAIN fileSystem
    /\ childPaths(fileSystem, <<"home", "kali", "sample", ".git">>) = {}

(***************************************************************************)
(* C8: git clone of a url whose derived name is a child of the working     *)
(* directory, file or directory, appends the command entry and one output  *)
(* entry with the fatal already-exists message, starts no streaming and    *)
(* leaves the tree, cwd and the released busy flag as they are.            *)
(***************************************************************************)
CloneRefused(ln, name) ==
    /\ history' = history \o
           <<commandItem(ln),
             outputItem("fatal: destination path '" \o name
                        \o "' already exists and is not an empty directory.")>>
    /\ inflight' = inflight
    /\ ~isLoading'
    /\ fileSystem' = fileSystem
    /\ cwd' = cwd

C8_CloneOfExistingName ==
    [][Accepted => \E ln \in {line} : IsClone(ln) =>
          \E name \in {repoNameOf(repoUrlOf(ln))} :
              childAt(name) \in DOMAIN fileSystem => CloneRefused(ln, name)]_vars

\* the clone of sample.git was repeated in the directory that holds sample
C8_Witness ==
    /\ lastEvent = Event("handleFormSubmit", "git clone https://example.com/sample.git")
    /\ ~isLoading
    /\ <<"home", "kali", "sample">> \in DOMAIN fileSystem
    /\ Len(history) = 4
    /\ startsWith(history[4].content, "fatal: destination path 'sample' already exists")

(***************************************************************************)
(* C9: cd takes its first argument, or /home/kali when there is none, as   *)
(* the target.  When the resolved path is a directory of the tree, cwd     *)
(* becomes the resolved path and only the command entry is appended.       *)
(* Otherwise cwd stays and the one output entry is                         *)
(* cd: no such file or directory: <target>; the same line submitted again  *)
(* then gives the same entry and the same cwd.  The tree stays in both.    *)
(***************************************************************************)
CdFails(ln, target) ==
    \E failed \in {<<commandItem(ln), outputItem("cd: no such file or directory: " \o target)>>} :
    \E again \in {executeCommand(ln, history', isLoading', cwd', fileSystem', "low")} :
        /\ cwd' = cwd
        /\ history' = history \o failed
        /\ again.cwd = cwd'
        /\ again.history = history' \o failed
        /\ again.fs = fileSystem'

CdStep(ln, target, resolved) ==
    /\ fileSystem' = fileSystem
    /\ ~isLoading'
    /\ IF pathParts(resolved) \in DOMAIN fileSystem
          /\ fileSystem[pathParts(resolved)].type = "directory"
       THEN cwd' = resolved /\ history' = Append(history, commandItem(ln))
       ELSE CdFails(ln, target)

C9_Cd ==
    [][Accepted => \E ln \in {line} : \E w \in {splitWhitespace(ln)} : Verb(w, "cd") =>
          \E target \in {IF Len(w) >= 2 THEN w[2] ELSE "/home/kali"} :
              CdStep(ln, target, resolvePath(cwd, target))]_vars

\* cd README.md has failed: the target is a file
C9_Witness ==
    /\ lastEvent = Event("handleFormSubmit", "cd README.md")
    /\ cwd = "/home/kali"
    /\ history[Len(history)] = outputItem("cd: no such file or directory: README.md")

(***************************************************************************)
(* C10: mkdir x, the resolved path of x being no node of the tree and its  *)
(* parent being a directory, succeeds: no output entry, an empty directory *)
(* at the resolved path; mkdir x submitted again then gives the File       *)
(* exists error and leaves the tree as it is.  No mkdir changes or removes *)
(* a node that is there, and none succeeds for a path that is in the tree. *)
(***************************************************************************)
\* at is no node of the tree and its parent is a directory
Fresh(at) ==
    /\ at # <<>>
    /\ at \notin DOMAIN fileSystem
    /\ pop(at) \in DOMAIN fileSystem
    /\ fileSystem[pop(at)].type = "directory"

MkdirSucceedsThenExists(ln, at) ==
    \E again \in {executeCommand(ln, history', isLoading', cwd', fileSystem', "low")} :
        /\ history' = Append(history, commandItem(ln))
        /\ DOMAIN fileSystem' = DOMAIN fileSystem \cup {at}
        /\ fileSystem'[at].type = "directory"
        /\ again.fs = fileSystem'
        /\ Len(again.history) = Len(history') + 2
        /\ endsWith(again.history[Len(again.history)].content, ": File exists")

MkdirKeepsNodes(at) ==
    /\ NodesKept
    /\ cwd' = cwd
    /\ at \in DOMAIN fileSystem =>
            /\ fileSystem' = fileSystem
            /\ Len(history') = Len(history) + 2
            /\ endsWith(history'[Len(history')].content, ": File exists")

C10_MkdirTwice ==
    [][Accepted => \E ln \in {line} : \E w \in {splitWhitespace(ln)} :
          (Verb(w, "mkdir") /\ Len(w) >= 2) =>
              \E at \in {pathParts(resolvePath(cwd, w[2]))} :
                  /\ Fresh(at) => MkdirSucceedsThenExists(ln, at)
                  /\ MkdirKeepsNodes(at)]_vars

\* the same for the names that Object.prototype does not hold
C10_MkdirTwiceOrdinaryName ==
    [][Accepted => \E ln \in {line} : \E w \in {splitWhitespace(ln)} :
          (Verb(w, "mkdir") /\ Len(w) >= 2) =>
              \E at \in {pathParts(resolvePath(cwd, w[2]))} :
                  /\ (Fresh(at) /\ at[Len(at)] \notin PrototypeKeys)
                         => MkdirSucceedsThenExists(ln, at)
                  /\ MkdirKeepsNodes(at)]_vars

\* mkdir foo was submitted in a directory that holds foo
C10_Witness ==
    /\ lastEvent = Event("handleFormSubmit", "mkdir foo")
    /\ <<"home", "kali", "foo">> \in DOMAIN fileSystem
    /\ cwd = "/home/kali"
    /\ endsWith(history[Len(history)].content, ": File exists")

(***************************************************************************)
(* C11: from any directory the run can be in, mkdir foo, then cd foo, then *)
(* pwd print the directory they started in followed by /foo, and /foo when *)
(* they started in the root (no doubled slash); cwd is that path.          *)
(***************************************************************************)
\* the path of the child name of the directory dir
childPath(dir, name) == IF dir = "/" THEN "/" \o name ELSE dir \o "/" \o name

C11_RoundTrip ==
    ~isLoading =>
        \E made \in {executeCommand("mkdir foo", history, FALSE, cwd, fileSystem, "low")} :
        \E moved \in {executeCommand("cd foo", made.history, FALSE, made.cwd, made.fs, "low")} :
        \E printed \in {executeCommand("pwd", moved.history, FALSE, moved.cwd, moved.fs, "low")} :
            /\ made.cwd = cwd
            /\ moved.cwd = childPath(cwd, "foo")
            /\ printed.cwd = moved.cwd
            /\ printed.history = Append(Append(moved.history, commandItem("pwd")),
                                        outputItem(childPath(cwd, "foo")))

\* the three lines were submitted in the root directory
C11_Witness ==
    /\ lastEvent = Event("handleFormSubmit", "pwd")
    /\ cwd = "/foo"
    /\ history = <<commandItem("mkdir foo"), commandItem("cd foo"), commandItem("pwd"),
                   outputItem("/foo")>>

(***************************************************************************)
(* Steps of the built-ins that take a path.                                *)
(***************************************************************************)
\* this step appends the command entry of ln and one output entry with text
Answered(ln, text) == history' = history \o <<commandItem(ln), outputItem(text)>>

\* this step appends the command entry of ln and no output entry
Silent(ln) == history' = Append(history, commandItem(ln))

\* the messages of mkdir about the argument as it was typed
mkdirMessage(arg, what) == "mkdir: cannot create directory '" \o arg \o "': " \o what

\* this step leaves the tree and the working directory as they are
TreeAndCwdKept == fileSystem' = fileSystem /\ cwd' = cwd

(***************************************************************************)
(* C12: mkdir of an argument that resolves to the root, where the final    *)
(* segment is empty (mkdir /, mkdir .. in a top-level directory), answers  *)
(* with the Invalid argument message and not with File exists.             *)
(***************************************************************************)
C12_MkdirRootInvalid ==
    [][Accepted => \E ln \in {line} : \E w \in {splitWhitespace(ln)} :
          (Verb(w, "mkdir") /\ Len(w) >= 2) =>
              (resolvePath(cwd, w[2]) = "/" =>
                  Answered(ln, mkdirMessage(w[2], "Invalid argument")))]_vars

\* what the code does: the root is found first, so the answer is File exists
\* and no step of mkdir answers Invalid argument
C12_MkdirRootExists ==
    [][Accepted => \E ln \in {line} : \E w \in {splitWhitespace(ln)} :
          (Verb(w, "mkdir") /\ Len(w) >= 2) =>
              /\ resolvePath(cwd, w[2]) = "/" =>
                    /\ Answered(ln, mkdirMessage(w[2], "File exists"))
                    /\ TreeAndCwdKept
              /\ ~endsWith(history'[Len(history')].content, ": Invalid argument")]_vars

\* mkdir .. was submitted in /home
C12_Witness ==
    /\ lastEvent = Event("handleFormSubmit", "mkdir ..")
    /\ cwd = "/home"
    /\ history = <<commandItem("mkdir .."), outputItem(mkdirMessage("..", "File exists"))>>
    /\ fileSystem = SeedTree

(***************************************************************************)
(* C13: mkdir of an argument whose parent path is no directory of the tree *)
(* (missing, or a file) answers No such file or directory about the        *)
(* argument as typed and makes no directory on the way.  A mkdir that      *)
(* answers with a message leaves the tree and cwd as they are; a mkdir     *)
(* that succeeds adds one empty directory under the parent and changes     *)
(* nothing else.                                                           *)
(***************************************************************************)
\* the parent of the place at is a directory of the tree
ParentIsDirectory(at) ==
    /\ at # <<>>
    /\ pop(at) \in DOMAIN fileSystem
    /\ fileSystem[pop(at)].type = "directory"

\* this step adds an empty directory at the place at and nothing else
AddsDirectory(at) ==
    /\ at \notin DOMAIN fileSystem
    /\ ParentIsDirectory(at)
    /\ DOMAIN fileSystem' = DOMAIN fileSystem \cup {at}
    /\ fileSystem'[at].type = "directory"
    /\ childPaths(fileSystem', at) = {}
    /\ NodesKept
    /\ cwd' = cwd

MkdirStep(ln, arg, at) ==
    /\ (at \notin DOMAIN fileSystem /\ at # <<>> /\ ~ParentIsDirectory(at)) =>
            Answered(ln, mkdirMessage(arg, "No such file or directory"))
    /\ IF Silent(ln)
       THEN AddsDirectory(at)
       ELSE /\ Len(history') = Len(history) + 2
            /\ history'[Len(history')].type = "output"
            /\ TreeAndCwdKept

C13_MkdirParent ==
    [][Accepted => \E ln \in {line} : \E w \in {splitWhitespace(ln)} : Verb(w, "mkdir") =>
          IF Len(w) >= 2
          THEN MkdirStep(ln, w[2], pathParts(resolvePath(cwd, w[2])))
          ELSE Answered(ln, "mkdir: missing operand") /\ TreeAndCwdKept]_vars

\* mkdir README.md/foo was submitted in /home/kali: the parent is a file
C13_Witness ==
    /\ lastEvent = Event("handleFormSubmit", "mkdir README.md/foo")
    /\ cwd = "/home/kali"
    /\ history[Len(history)]
           = outputItem(mkdirMessage("README.md/foo", "No such file or directory"))
    /\ fileSystem = SeedTree

(***************************************************************************)
(* C14: resolvePath(cwd, pathExpr) is the reference fold: no segments to   *)
(* start with when pathExpr begins with a slash, the home directory when   *)
(* pathExpr is the tilde alone, the segments of cwd otherwise; an empty    *)
(* segment and a dot are skipped, two dots take the last segment away and  *)
(* do nothing when none is left, any other segment is added; the result is *)
(* a slash and the segments joined by slashes.  cd moves to that path when *)
(* it is a directory of the tree.                                          *)
(***************************************************************************)
\* the pieces of s between its slashes, read character by character; cur
\* is the piece being read
RECURSIVE SegmentsFrom(_, _, _)
SegmentsFrom(s, i, cur) ==
    IF i > Len(s) THEN <<cur>>
    ELSE IF charAt(s, i) = "/" THEN <<cur>> \o SegmentsFrom(s, i + 1, "")
    ELSE SegmentsFrom(s, i + 1, cur \o charAt(s, i))

NonEmptySegment(x) == x # ""

RECURSIVE FoldSegments(_, _)
FoldSegments(acc, segments) ==
    IF segments = <<>> THEN acc
    ELSE IF Head(segments) \in {"", "."} THEN FoldSegments(acc, Tail(segments))
    ELSE IF Head(segments) = ".."
    THEN FoldSegments(IF acc = <<>> THEN <<>> ELSE SubSeq(acc, 1, Len(acc) - 1), Tail(segments))
    ELSE FoldSegments(acc \o <<Head(segments)>>, Tail(segments))

RECURSIVE Slashed(_)
Slashed(segments) ==
    IF segments = <<>> THEN ""
    ELSE "/" \o Head(segments) \o Slashed(Tail(segments))

ReferenceResolve(dir, pathExpr) ==
    IF pathExpr # "" /\ charAt(pathExpr, 1) = "/"
    THEN Only({IF Slashed(r) = "" THEN "/" ELSE Slashed(r)
               : r \in {FoldSegments(<<>>, SegmentsFrom(pathExpr, 1, ""))}})
    ELSE IF pathExpr = "~" THEN "/home/kali"
    ELSE Only({IF Slashed(r) = "" THEN "/" ELSE Slashed(r)
               : r \in {FoldSegments(SelectSeq(SegmentsFrom(dir, 1, ""), NonEmptySegment),
                                     SegmentsFrom(pathExpr, 1, ""))}})

\* the first word is one of the built-ins that resolve their argument
TakesPath(w) == \E v \in {"cd", "cat", "mkdir", "termux-fix-shebang"} : Verb(w, v)

ResolvesAs(w, expected) ==
    /\ resolvePath(cwd, w[2]) = expected
    /\ Verb(w, "cd") =>
          IF pathParts(expected) \in DOMAIN fileSystem
             /\ fileSystem[pathParts(expected)].type = "directory"
          THEN cwd' = expected
          ELSE cwd' = cwd

C14_ResolveIsFold ==
    [][Accepted => \E ln \in {line} : \E w \in {splitWhitespace(ln)} :
          (TakesPath(w) /\ Len(w) >= 2) =>
              \E expected \in {ReferenceResolve(cwd, w[2])} : ResolvesAs(w, expected)]_vars

\* cd ../.. has ended in the root: two dots with no segment left to take away
C14_Witness ==
    /\ lastEvent = Event("handleFormSubmit", "cd ../..")
    /\ cwd = "/"
    /\ history = <<commandItem("cd ../..")>>

(***************************************************************************)
(* C15: getNode(path) is the node reached by walking the segments of path  *)
(* from the root through the children of directories; it is not-found when *)
(* a segment is absent or a node on the way is a file, and it is the root  *)
(* for the path without segments.  For an absolute path p made of names of *)
(* directories that are there, getNode(resolvePath(cwd, p)) is the node of *)
(* the walk of p, whatever cwd is.  cat answers by what the walk finds.    *)
(***************************************************************************)
\* the walk from the place at along segments: found with the place it ends
\* at, or not found
RECURSIVE ManualWalk(_, _)
ManualWalk(at, segments) ==
    IF segments = <<>> THEN [found |-> TRUE, at |-> at]
    ELSE IF fileSystem[at].type # "directory" THEN [found |-> FALSE, at |-> <<>>]
    ELSE IF at \o <<Head(segments)>> \notin DOMAIN fileSystem THEN [found |-> FALSE, at |-> <<>>]
    ELSE ManualWalk(at \o <<Head(segments)>>, Tail(segments))

\* the segments of the path s, the empty ones left out
SegmentsOf(s) == SelectSeq(SegmentsFrom(s, 1, ""), NonEmptySegment)

\* getNode returned the node that the walk found, or null when it found none
SameNode(node, found) ==
    /\ node.found = found.found
    /\ found.found => (node.own /\ node.at = found.at)

catAnswer(arg, found) ==
    IF ~found.found THEN "cat: " \o arg \o ": No such file or directory"
    ELSE IF fileSystem[found.at].type = "file" THEN fileSystem[found.at].content
    ELSE "cat: " \o arg \o ": Is a directory"

\* p is absolute and made of names of directories that are there
DirectoriesOnly(p) ==
    /\ startsWith(p, "/")
    /\ \A i \in 1..Len(SegmentsOf(p)) : SubSeq(SegmentsOf(p), 1, i) \in DOMAIN fileSystem
           /\ fileSystem[SubSeq(SegmentsOf(p), 1, i)].type = "directory"

LooksUp(ln, w, full) ==
    \E found \in {ManualWalk(<<>>, SegmentsOf(full))} :
        /\ SameNode(getNode(fileSystem, full), found)
        /\ full = "/" => (found.found /\ found.at = <<>>)
        /\ DirectoriesOnly(w[2]) => found = ManualWalk(<<>>, SegmentsOf(w[2]))
        /\ Verb(w, "cat") => Answered(ln, catAnswer(w[2], found))

C15_LookupIsWalk ==
    [][Accepted => \E ln \in {line} : \E w \in {splitWhitespace(ln)} :
          (TakesPath(w) /\ Len(w) >= 2) => LooksUp(ln, w, resolvePath(cwd, w[2]))]_vars

\* the same for the paths that do not end in a name that Object.prototype holds
C15_LookupOrdinaryName ==
    [][Accepted => \E ln \in {line} : \E w \in {splitWhitespace(ln)} :
          (TakesPath(w) /\ Len(w) >= 2) =>
              \E full \in {resolvePath(cwd, w[2])} :
                  (full = "/" \/ SegmentsOf(full)[Len(SegmentsOf(full))] \notin PrototypeKeys)
                      => LooksUp(ln, w, full)]_vars

\* cat constructor was submitted in /home/kali, which holds no such child
C15_Witness ==
    /\ lastEvent = Event("handleFormSubmit", "cat constructor")
    /\ cwd = "/home/kali"
    /\ <<"home", "kali", "constructor">> \notin DOMAIN fileSystem
    /\ history = <<commandItem("cat constructor"), outputItem("cat: constructor: Is a directory")>>

(***************************************************************************)
(* C16: termux-fix-shebang on a file whose first line starts with #!       *)
(* replaces that first line by the fixed interpreter path and leaves every *)
(* line after it as it is: the content from the first line break on is the *)
(* same before and after; the old value it reports is the former first     *)
(* line.                                                                   *)
(***************************************************************************)
\* the part of text before the first occurrence of sep (all of it when there is none)
Before(text, sep) ==
    IF indexOf(text, sep) = 0 THEN text ELSE SubSeq(text, 1, indexOf(text, sep) - 1)

\* the part of text from the first occurrence of sep on ("" when there is none)
From(text, sep) ==
    IF indexOf(text, sep) = 0 THEN "" ELSE SubSeq(text, indexOf(text, sep), Len(text))

shebangAnswer(arg, old) ==
    "shebang of " \o arg \o " has been rewritten from '" \o old \o "' to '" \o TermuxShebang \o "'"

\* this step rewrites the file at the place at, lines being told apart by sep
Rewrites(ln, arg, at, sep) ==
    \E text \in {fileSystem[at].content} :
        /\ fileSystem' = [fileSystem EXCEPT ![at].content = TermuxShebang \o From(text, sep)]
        /\ Answered(ln, shebangAnswer(arg, Before(text, sep)))
        /\ cwd' = cwd

\* the place at holds a file whose first line starts with #!
HasShebang(at) ==
    /\ at \in DOMAIN fileSystem
    /\ fileSystem[at].type = "file"
    /\ startsWith(fileSystem[at].content, "#!")

C16_ShebangKeepsLines ==
    [][Accepted => \E ln \in {line} : \E w \in {splitWhitespace(ln)} :
          (Verb(w, "termux-fix-shebang") /\ Len(w) >= 2) =>
              \E at \in {pathParts(resolvePath(cwd, w[2]))} :
                  HasShebang(at) => Rewrites(ln, w[2], at, "\n")]_vars

\* what the code does: the lines are told apart by a backslash followed by n
C16_ShebangUpToBackslashN ==
    [][Accepted => \E ln \in {line} : \E w \in {splitWhitespace(ln)} :
          (Verb(w, "termux-fix-shebang") /\ Len(w) >= 2) =>
              \E at \in {pathParts(resolvePath(cwd, w[2]))} :
                  HasShebang(at) => Rewrites(ln, w[2], at, ShebangSeparator)]_vars

\* termux-fix-shebang chroot.py was submitted in /home/kali: the lines of the
\* file up to its first backslash-n are gone
C16_Witness ==
    /\ lastEvent = Event("handleFormSubmit", "termux-fix-shebang chroot.py")
    /\ cwd = "/home/kali"
    /\ fileSystem[<<"home", "kali", "chroot.py">>].content
           = TermuxShebang \o "\\n'):\n    Line = Line.strip()\n"
    /\ indexOf(history[2].content, "# Usage:") # 0

(***************************************************************************)
(* C17: termux-fix-shebang on a path that is not in the tree answers file  *)
(* not found, on a directory not a file, on a file whose first line does   *)
(* not start with #! that there is no shebang; each leaves the whole tree  *)
(* as it is.  No termux-fix-shebang changes a directory node.              *)
(***************************************************************************)
DirectoriesKept ==
    \A p \in DOMAIN fileSystem :
        fileSystem[p].type = "directory" => (p \in DOMAIN fileSystem' /\ fileSystem'[p] = fileSystem[p])

NoRewrite(ln, arg, at) ==
    /\ at \notin DOMAIN fileSystem =>
            Answered(ln, "termux-fix-shebang: file not found: " \o arg) /\ TreeAndCwdKept
    /\ (at \in DOMAIN fileSystem /\ fileSystem[at].type = "directory") =>
            Answered(ln, "termux-fix-shebang: not a file: " \o arg) /\ TreeAndCwdKept
    /\ (at \in DOMAIN fileSystem /\ fileSystem[at].type = "file" /\ ~HasShebang(at)) =>
            Answered(ln, arg \o " does not have a shebang or is empty.") /\ TreeAndCwdKept
    /\ DirectoriesKept
    /\ DOMAIN fileSystem' = DOMAIN fileSystem

C17_ShebangRefusals ==
    [][Accepted => \E ln \in {line} : \E w \in {splitWhitespace(ln)} :
          (Verb(w, "termux-fix-shebang") /\ Len(w) >= 2) =>
              NoRewrite(ln, w[2], pathParts(resolvePath(cwd, w[2])))]_vars

\* the same for the paths that do not end in a name that Object.prototype holds
C17_ShebangRefusalsOrdinaryName ==
    [][Accepted => \E ln \in {line} : \E w \in {splitWhitespace(ln)} :
          (Verb(w, "termux-fix-shebang") /\ Len(w) >= 2) =>
              \E at \in {pathParts(resolvePath(cwd, w[2]))} :
                  IF at # <<>> /\ at[Len(at)] \in PrototypeKeys /\ at \notin DOMAIN fileSystem
                  THEN TreeAndCwdKept
                  ELSE NoRewrite(ln, w[2], at)]_vars

\* termux-fix-shebang constructor was submitted in /home/kali, which holds
\* no such child
C17_Witness ==
    /\ lastEvent = Event("handleFormSubmit", "termux-fix-shebang constructor")
    /\ cwd = "/home/kali"
    /\ <<"home", "kali", "constructor">> \notin DOMAIN fileSystem
    /\ history[2] = outputItem("termux-fix-shebang: not a file: constructor")
    /\ fileSystem = SeedTree

(***************************************************************************)
(* Steps of the dispatch.  Which stage handled a line is told by what the  *)
(* step leaves behind: an emptied history, the output of a git simulator,  *)
(* a suspended call of the external responder.                             *)
(***************************************************************************)
\* this step calls the external responder
CallsResponder == \E t \in inflight' \ inflight : t.kind = "external"

\* this step starts a streaming loop of the kind given
StartsLoop(kind) == \E t \in inflight' \ inflight : t.kind = kind

\* the output entry that this step appended after the command entry, "" when
\* it appended none
OutputOfStep ==
    IF Len(history') = Len(history) + 2 /\ history'[Len(history')].type = "output"
    THEN history'[Len(history')].content
    ELSE ""

\* part occurs in text
Occurs(part, text) ==
    \E i \in 1..(Len(text) - Len(part) + 1) : SubSeq(text, i, i + Len(part) - 1) = part

\* the step is the work of the git simulator named
SimulatorStep(verb) ==
    \E out \in {OutputOfStep} :
        CASE verb = "git clone" ->
                \/ startsWith(out, "Cloning into '") /\ StartsLoop("clone")
                \/ startsWith(out, "fatal: You must specify a repository")
                \/ startsWith(out, "fatal: destination path '")
          [] verb = "git commit" ->
                \/ startsWith(out, "[main ")
                \/ startsWith(out, "fatal: You must specify a commit message")
          [] verb = "git log" -> startsWith(out, "commit ")
          [] verb = "git diff" -> startsWith(out, "diff --git a/")
          [] verb = "git fetch" -> out = "Fetching origin" /\ StartsLoop("fetch")
          [] OTHER -> FALSE

GitVerbs == {"git clone", "git commit", "git log", "git diff", "git fetch"}

BuiltinVerbs == {"pwd", "cd", "ls", "cat", "mkdir", "whoami", "termux-fix-shebang"}

(***************************************************************************)
(* C18: an accepted line that is not empty calls the external responder    *)
(* if and only if it is not clear, no git simulator handles it and its     *)
(* first word is none of pwd, cd, ls, cat, mkdir, whoami,                  *)
(* termux-fix-shebang.  A line that an earlier stage handles reaches no    *)
(* later one: clear leaves no entry, a git simulator leaves cwd and the    *)
(* tree alone, and neither calls the responder.  No step of the            *)
(* interpreter appends an unknown-command output.                          *)
(***************************************************************************)
Dispatched(ln, w) ==
    \E cleared \in {toLowerCase(ln) = "clear"} :
    \E simulated \in {\E verb \in GitVerbs : SimulatorStep(verb)} :
    \E builtin \in {\E v \in BuiltinVerbs : Verb(w, v)} :
        /\ CallsResponder <=> (~cleared /\ ~simulated /\ ~builtin)
        /\ cleared => (history' = <<>> /\ ~simulated /\ ~builtin /\ inflight' = inflight)
        /\ simulated => (~builtin /\ TreeAndCwdKept)
        /\ CallsResponder => (Silent(ln) /\ TreeAndCwdKept /\ isLoading')
        /\ \E out \in {OutputOfStep} :
               ~Occurs("nknown command", out) /\ ~Occurs("ommand not found", out)

C18_ResponderIsLast ==
    [][Accepted => \E ln \in {line} : ln # "" => Dispatched(ln, splitWhitespace(ln))]_vars

\* whoami was answered by the built-in and no call of the responder is suspended
C18_Witness ==
    /\ lastEvent = Event("handleFormSubmit", "whoami")
    /\ history = <<commandItem("whoami"), outputItem("kali")>>
    /\ inflight = {}
    /\ ~isLoading

(***************************************************************************)
(* C19: a line that starts with git clone, git commit, git log, git diff   *)
(* or git fetch, further words or not (git log --oneline, git diff HEAD,   *)
(* git fetch origin), is handled by the simulator of that verb and is not  *)
(* passed to the external responder.                                       *)
(***************************************************************************)
C19_GitVerbsByPrefix ==
    [][Accepted => \E ln \in {line} :
          \A verb \in GitVerbs :
              startsWith(ln, verb) => (SimulatorStep(verb) /\ ~CallsResponder)]_vars

\* what the code does: git clone and git commit by prefix; git log, git diff
\* and git fetch only when the line is the verb alone, in any letter case,
\* and a line with further words goes to the external responder
C19_GitVerbsAsCoded ==
    [][Accepted => \E ln \in {line} :
          /\ \A verb \in {"git clone", "git commit"} :
                startsWith(ln, verb) => (SimulatorStep(verb) /\ ~CallsResponder)
          /\ \A verb \in {"git log", "git diff", "git fetch"} :
                /\ toLowerCase(ln) = verb => (SimulatorStep(verb) /\ ~CallsResponder)
                /\ (startsWith(ln, verb) /\ ln # verb) =>
                        (CallsResponder /\ Silent(ln) /\ ~SimulatorStep(verb))]_vars

\* git log --oneline was handed to the external responder
C19_Witness ==
    /\ lastEvent = Event("handleFormSubmit", "git log --oneline")
    /\ history = <<commandItem("git log --oneline")>>
    /\ isLoading
    /\ \E t \in inflight : t.kind = "external" /\ t.args = <<"git log --oneline">>

(***************************************************************************)
(* C20: clear, in any letter case, leaves history empty, its own command   *)
(* entry included, so that the command log is empty; cwd and the tree stay *)
(* as they are, the busy flag is released, and no git simulator, built-in  *)
(* or call of the external responder follows.                              *)
(***************************************************************************)
C20_Clear ==
    [][Accepted => \E ln \in {line} : toLowerCase(ln) = "clear" =>
          /\ history' = <<>>
          /\ commandLog(history') = <<>>
          /\ TreeAndCwdKept
          /\ ~isLoading'
          /\ inflight' = inflight
          /\ OutputOfStep = ""]_vars

\* Clear with blanks around it was submitted in /home/kali after mkdir foo
C20_Witness ==
    /\ lastEvent = Event("handleFormSubmit", "  Clear ")
    /\ history = <<>>
    /\ ~isLoading
    /\ inflight = {}
    /\ <<"home", "kali", "foo">> \in DOMAIN fileSystem

(***************************************************************************)
(* C21: every call of the external responder, for a submitted line and for *)
(* the seed command, carries two arguments: the command line and the       *)
(* working directory at the time of the submission.                        *)
(***************************************************************************)
\* the calls of the external responder that this step suspends
ResponderCalls == {t \in inflight' \ inflight : t.kind \in {"seed", "external"}}

C21_CallCarriesCwd ==
    [][\A t \in ResponderCalls : Len(t.args) = 2 /\ t.args[2] = cwd]_vars

\* what the code does: the call carries the command line and nothing else
C21_CallCarriesLineOnly ==
    [][\A t \in ResponderCalls :
          /\ t.kind = "external" => (Accepted /\ t.args = <<line>>)
          /\ t.kind = "seed" => t.args = <<"neofetch">>]_vars

\* help was handed to the external responder
C21_Witness ==
    /\ lastEvent = Event("handleFormSubmit", "help")
    /\ \E t \in inflight : t.kind = "external" /\ t.args = <<"help">>

(***************************************************************************)
(* C22: when the external responder fails, for a submitted line or for the *)
(* seed command, one output entry Error: <message> is appended and nothing  *)
(* else of history changes, the busy flag is released, cwd and the tree    *)
(* stay as they are, and a line submitted next is accepted.                *)
(***************************************************************************)
\* this step is the external responder failing
ResponderFails == lastEvent'.handler = "responderRejects"

\* the messages of the failures the responder can end with
FailureMessages == {errorMessage(error) : error \in ResponderErrors}

C22_FailureIsErrorLine ==
    [][/\ ResponderFails =>
            /\ \E message \in FailureMessages :
                  history' = Append(history, outputItem("Error: " \o message))
            /\ history[Len(history)].type = "command"
            /\ isLoading /\ ~isLoading'
            /\ inflight' = {}
            /\ TreeAndCwdKept
       /\ (lastEvent.handler = "responderRejects"
             /\ lastEvent'.handler \in {"handleFormSubmit", "handleFormSubmit rejected"})
            => Accepted]_vars

\* the seed command failed with an Error, then help failed with a value
\* that is no Error
C22_Witness ==
    /\ lastEvent.handler = "responderRejects"
    /\ Len(history) = 7
    /\ history[4] = commandItem("neofetch")
    /\ history[5] = outputItem("Error: API key not valid")
    /\ history[6] = commandItem("help")
    /\ history[7] = outputItem("Error: An unknown error occurred.")
    /\ ~isLoading

(***************************************************************************)
(* C23: from the start of the session until the answer or the failure of   *)
(* the seed command has been appended, the busy flag is set and no         *)
(* submitted line is accepted; the command entry of the seed command and   *)
(* its output entry come before every command entry of the user; the seed  *)
(* command is submitted once.                                              *)
(***************************************************************************)
\* the seed command has not been submitted yet, or its call is suspended
SeedPending == ~initialCommandRun \/ \E t \in inflight : t.kind = "seed"

\* history begins with the banner and the command entry of the seed command
SeedPrefix(h) ==
    Len(h) >= 4 /\ SubSeq(h, 1, 4) = Append(InitialHistory, commandItem("neofetch"))

C23_SeedFirst ==
    /\ [](SeedPending =>
            /\ isLoading
            /\ history = IF initialCommandRun
                         THEN Append(InitialHistory, commandItem("neofetch"))
                         ELSE InitialHistory)
    /\ []((SeedPrefix(history) /\ ~SeedPending) =>
            /\ Len(history) >= 5
            /\ history[5].type = "output"
            /\ \A i \in DOMAIN history :
                  (history[i].type = "command" /\ i # 4) =>
                      (i > 5 /\ history[i].content # "neofetch"))
    /\ [][/\ (SeedPending /\ lastEvent'.handler
                  \in {"handleFormSubmit", "handleFormSubmit rejected"})
              => (~Accepted /\ history' = history /\ isLoading')
          /\ \A t \in inflight' \ inflight : t.kind = "seed" =>
                /\ lastEvent'.handler = "runInitialCommand"
                /\ ~initialCommandRun
                /\ initialCommandRun'
          /\ initialCommandRun => initialCommandRun'
          /\ ((\E t \in inflight : t.kind = "seed") /\ history' # history) =>
                /\ lastEvent'.handler \in {"responderResolves", "responderRejects"}
                /\ Len(history') = 5
                /\ SubSeq(history', 1, 4) = history
                /\ history'[5].type = "output"
                /\ ~isLoading'
                /\ ~SeedPending'
          /\ SeedPrefix(history) =>
                (SeedPrefix(history') \/ (Accepted /\ toLowerCase(line) = "clear"))]_vars

\* help was submitted and accepted after the answer to the seed command
C23_Witness ==
    /\ lastEvent = Event("handleFormSubmit", "help")
    /\ Len(history) = 6
    /\ history[4] = commandItem("neofetch")
    /\ history[5] = outputItem("Available commands: ls, cd, pwd")
    /\ history[6] = commandItem("help")

(***************************************************************************)
(* C24: git commit with -m followed by a message between double or single  *)
(* quotes that is not empty appends one output entry: [main, a hash of     *)
(* exactly 7 characters among 0-9a-f, the message, and a line with 1 to 3  *)
(* files and 1 to 20 insertions, whatever the random draws; git commit     *)
(* without -m appends the fatal error about the missing message, which     *)
(* holds no hash; cwd and the tree stay as they are in both cases.         *)
(***************************************************************************)
\* in ln, -m stands at i, then blanks, then a message between two q that is
\* not empty and holds no q
QuotedMessageAt(ln, i, q) ==
    \E j \in (i + 3)..Len(ln), k \in (i + 5)..Len(ln) :
        /\ k > j + 1
        /\ SubSeq(ln, i, i + 1) = "-m"
        /\ \A x \in (i + 2)..(j - 1) : isSpace(charAt(ln, x))
        /\ charAt(ln, j) = q /\ charAt(ln, k) = q
        /\ \A x \in (j + 1)..(k - 1) : charAt(ln, x) # q

HasQuotedMessage(ln) ==
    \E i \in 1..Len(ln), q \in {"\"", "'"} : QuotedMessageAt(ln, i, q)

\* out is the answer to a commit: hash, message, files, insertions
CommitAnswer(out, ln) ==
    \E filesChanged \in 1..3, insertions \in 1..20 :
      \E tail \in {"\n " \o ToString(filesChanged) \o " file changed, "
                       \o ToString(insertions) \o " insertions(+)"} :
        /\ SubSeq(out, 1, 6) = "[main "
        /\ \A i \in 7..13 : Len(charAt(out, i)) = 1 /\ Occurs(charAt(out, i), HexDigits)
        /\ SubSeq(out, 14, 15) = "] "
        /\ Len(out) > 15 + Len(tail)
        /\ SubSeq(out, Len(out) - Len(tail) + 1, Len(out)) = tail
        /\ Occurs(SubSeq(out, 16, Len(out) - Len(tail)), ln)

MissingMessage == "fatal: You must specify a commit message with -m \"<message>\""

C24_Commit ==
    [][Accepted => \E ln \in {line} : startsWith(ln, "git commit") =>
          /\ TreeAndCwdKept
          /\ ~isLoading' /\ inflight' = inflight
          /\ HasQuotedMessage(ln) =>
                \E out \in {OutputOfStep} : Answered(ln, out) /\ CommitAnswer(out, ln)
          /\ ~Occurs("-m", ln) =>
                /\ Answered(ln, MissingMessage)
                /\ ~Occurs("[main ", MissingMessage)]_vars

\* a commit was answered with the greatest draws: hash fffffff, 3 files,
\* 20 insertions
C24_Witness ==
    /\ lastEvent = Event("handleFormSubmit", "git commit -m \"fix bug\"")
    /\ history = <<commandItem("git commit -m \"fix bug\""),
                   outputItem("[main fffffff] fix bug\n 3 file changed, 20 insertions(+)")>>
    /\ cwd = "/home/kali/projects"

(***************************************************************************)
(* Steps of the line editor.  ReverseSearch is isSearching, the search     *)
(* cursor is searchIndex (0-based), the command log is the command entries *)
(* of history.                                                             *)
(***************************************************************************)
\* this step is handleKeyDown for the key named
KeyStep(name) == lastEvent' = Event("handleKeyDown", name)

\* nothing of App changes: history, busy flag, cwd, tree, suspended calls
AppKept ==
    /\ history' = history
    /\ isLoading' = isLoading
    /\ inflight' = inflight
    /\ TreeAndCwdKept

\* the places (0-based) below bound of the entries of log that contain q
MatchesBelow(log, q, bound) == {i \in 0..(bound - 1) : Occurs(q, log[i + 1])}

\* the greatest member of a set of numbers that is not empty
Newest(S) == CHOOSE x \in S : \A y \in S : y <= x

(***************************************************************************)
(* C25: the search trigger pressed in Normal mode enters ReverseSearch     *)
(* with an empty query, the search cursor at the length of the command log *)
(* and the input buffer cleared, whatever it held; history, cwd and the    *)
(* tree stay as they are.                                                  *)
(***************************************************************************)
C25_EnterSearch ==
    [][(KeyStep("Ctrl+r") /\ ~isSearching) =>
          /\ isSearching'
          /\ searchQuery' = ""
          /\ searchIndex' = Len(commandLog(history))
          /\ input' = ""
          /\ AppKept]_vars

\* the search was entered with three commands in the log, after an earlier
\* search had been left
C25_Witness ==
    /\ lastEvent = Event("handleKeyDown", "Ctrl+r")
    /\ isSearching
    /\ searchQuery = ""
    /\ input = ""
    /\ searchIndex = 3
    /\ commandLog(history) = <<"ls", "cat a.txt", "ls -a">>

(***************************************************************************)
(* C26: in ReverseSearch, after a printable character or a backspace, for  *)
(* the query q that results: when q is not empty and some entry of the     *)
(* command log contains q, the input buffer becomes the most recent such   *)
(* entry and the search cursor its place, whatever was typed before; when  *)
(* no entry contains q the input buffer stays as it is; when q is empty    *)
(* the input buffer is cleared.                                            *)
(***************************************************************************)
\* this step is a printable character or a backspace in ReverseSearch, and q
\* is the query it leaves
EditsQuery(q) ==
    /\ isSearching
    /\ lastEvent'.handler = "handleKeyDown"
    /\ \/ Len(lastEvent'.arg) = 1 /\ q = searchQuery \o lastEvent'.arg
       \/ lastEvent'.arg = "Backspace" /\ q = SubSeq(searchQuery, 1, Len(searchQuery) - 1)

C26_SearchIsFunctionOfQuery ==
    [][\A q \in {searchQuery'} : EditsQuery(q) =>
          \E log \in {commandLog(history)} :
          \E found \in {MatchesBelow(log, q, Len(log))} :
              /\ isSearching'
              /\ AppKept
              /\ (q # "" /\ found # {}) =>
                    (input' = log[Newest(found) + 1] /\ searchIndex' = Newest(found))
              /\ (q # "" /\ found = {}) => input' = input
              /\ q = "" => input' = ""]_vars

\* the query ls matches ls -a, the most recent of the two entries with ls
C26_Witness ==
    /\ isSearching
    /\ searchQuery = "ls"
    /\ lastEvent = Event("handleKeyDown", "s")
    /\ commandLog(history) = <<"ls", "cat a.txt", "ls -a">>
    /\ input = "ls -a"
    /\ searchIndex = 2

(***************************************************************************)
(* C27: in ReverseSearch with a query that is not empty, the trigger       *)
(* pressed again moves to the nearest strictly older entry that contains   *)
(* the query: the search cursor decreases and the input buffer becomes     *)
(* that entry; when there is no older match the input buffer and the       *)
(* cursor stay as they are.  It never moves to a newer entry and never     *)
(* starts again from the end.                                              *)
(***************************************************************************)
C27_RepeatMovesOlder ==
    [][(KeyStep("Ctrl+r") /\ isSearching /\ searchQuery # "") =>
          \E log \in {commandLog(history)} :
          \E older \in {MatchesBelow(log, searchQuery, searchIndex)} :
              /\ isSearching' /\ searchQuery' = searchQuery
              /\ AppKept
              /\ searchIndex' <= searchIndex
              /\ older # {} =>
                    /\ searchIndex' = Newest(older)
                    /\ searchIndex' < searchIndex
                    /\ input' = log[Newest(older) + 1]
              /\ older = {} => (input' = input /\ searchIndex' = searchIndex)]_vars

\* the trigger moved from ls -a, the newest entry with l, to the oldest, ls
C27_Witness ==
    /\ isSearching
    /\ searchQuery = "l"
    /\ lastEvent = Event("handleKeyDown", "Ctrl+r")
    /\ commandLog(history) = <<"ls", "cat a.txt", "ls -a">>
    /\ input = "ls"
    /\ searchIndex = 0

(***************************************************************************)
(* C28: in ReverseSearch an arrow key or escape returns to Normal and      *)
(* dispatches nothing; the line-submit key returns to Normal and also      *)
(* dispatches the text shown in the input buffer to the interpreter: it is *)
(* appended to history as a command entry and executed.                    *)
(***************************************************************************)
\* this step leaves ReverseSearch
LeavesSearch == isSearching /\ ~isSearching' /\ searchQuery' = ""

\* this step hands the text to the interpreter: its command entry is
\* appended, with or without an output entry, and the buffer is emptied
Dispatches(text) ==
    \E ln \in {trim(text)} : ln # "" => (AppendsCommand(ln) /\ input' = "")

C28_SubmitKeyDispatches ==
    [][/\ (isSearching /\ (KeyStep("Escape") \/ KeyStep("ArrowUp"))) =>
              (LeavesSearch /\ AppKept /\ input' = input)
       /\ (isSearching /\ KeyStep("Enter")) => (LeavesSearch /\ Dispatches(input))]_vars

\* what the code does: the handler cancels the default action of every key
\* pressed in ReverseSearch, Enter included, so the form is not submitted:
\* Enter leaves the search like escape, the text stays in the input buffer,
\* and nothing is dispatched.  A submit event that does arrive while the
\* search is on leaves the search and dispatches.
C28_SubmitKeyOnlyLeaves ==
    [][/\ (isSearching /\ (KeyStep("Escape") \/ KeyStep("ArrowUp") \/ KeyStep("Enter"))) =>
              (LeavesSearch /\ AppKept /\ input' = input)
       /\ (isSearching /\ Accepted) => (LeavesSearch /\ Dispatches(input))]_vars

\* Enter was pressed in ReverseSearch on the match ls -a: the search is
\* left, the text is still in the input buffer and history holds the three
\* commands submitted before, no fourth
C28_Witness ==
    /\ lastEvent = Event("handleKeyDown", "Enter")
    /\ ~isSearching
    /\ input = "ls -a"
    /\ commandLog(history) = <<"ls", "cat a.txt", "ls -a">>

(***************************************************************************)
(* C29: Tab in Normal mode, when several entries of the vocabulary start   *)
(* with the trimmed input, leaves the input buffer as it is and appends to *)
(* history one command entry that echoes the input and one output entry    *)
(* that lists every matching entry, joined by a space; nothing is          *)
(* executed: cwd, the tree and the busy flag stay as they are and no call  *)
(* of the interpreter or of the external responder is made.                *)
(***************************************************************************)
\* the entries of the vocabulary that start with t, in the order of the
\* vocabulary
StartingWith(t) == SelectSeq(commands, LAMBDA cmd : startsWith(cmd, t))

\* this step is Tab in Normal mode on an input that several entries start with
TabOnSeveral(candidates) ==
    /\ KeyStep("Tab")
    /\ ~isSearching
    /\ trim(input) # ""
    /\ Len(candidates) > 1

\* the step appends the suggestion pair, the candidates joined by separator,
\* and changes nothing else
SuggestionStep(candidates, separator) ==
    /\ input' = input
    /\ history' = history \o <<commandItem(input), outputItem(join(candidates, separator))>>
    /\ isLoading' = isLoading
    /\ inflight' = inflight
    /\ TreeAndCwdKept
    /\ UNCHANGED <<isSearching, searchQuery, searchIndex>>

C29_SuggestionsSpaceJoined ==
    [][\A candidates \in {StartingWith(trim(input))} :
          TabOnSeveral(candidates) => SuggestionStep(candidates, " ")]_vars

\* the same with the separator of the code, three spaces
C29_SuggestionsThreeSpaces ==
    [][\A candidates \in {StartingWith(trim(input))} :
          TabOnSeveral(candidates) => SuggestionStep(candidates, "   ")]_vars

\* Tab on gi with blanks around it listed the nine git entries
C29_Witness ==
    /\ lastEvent = Event("handleKeyDown", "Tab")
    /\ input = "  gi "
    /\ history = <<commandItem("  gi "),
                   outputItem("git status   git log   git clone   git push   git pull"
                       \o "   git branch   git commit   git diff   git fetch")>>
    /\ ~isLoading
    /\ inflight = {}

(***************************************************************************)
(* C30: Tab in Normal mode on an input whose trimmed text t is not empty:  *)
(* when one entry of the vocabulary starts with t, the input buffer        *)
(* becomes that entry and one space and nothing else changes, and Tab      *)
(* pressed again leaves it the same; when no entry starts with t, input,   *)
(* history, cwd and the tree stay as they are.  Tab on an empty or blank   *)
(* input, and Tab in ReverseSearch, change nothing.                        *)
(***************************************************************************)
\* nothing changes but the record of the handler that ran
NothingChanges ==
    /\ AppKept
    /\ input' = input
    /\ UNCHANGED <<initialCommandRun, isSearching, searchQuery, searchIndex>>

C30_TabCompletes ==
    [][KeyStep("Tab") =>
          \A t \in {trim(input)} : \A candidates \in {StartingWith(t)} :
              /\ (~isSearching /\ t # "" /\ Len(candidates) = 1) =>
                    /\ input' = candidates[1] \o " "
                    /\ AppKept
                    /\ UNCHANGED <<initialCommandRun, isSearching, searchQuery, searchIndex>>
                    /\ StartingWith(trim(input')) = candidates
              /\ (~isSearching /\ t # "" /\ Len(candidates) = 0) => NothingChanges
              /\ (~isSearching /\ t = "") => NothingChanges
              /\ isSearching => NothingChanges]_vars

\* Tab left whoami and a space in the input buffer: completed from who, or
\* pressed again on the completed text
C30_Witness ==
    /\ lastEvent = Event("handleKeyDown", "Tab")
    /\ ~isSearching
    /\ input = "whoami "
    /\ history = <<>>

(***************************************************************************)
(* C31: ls lists the children of cwd and nothing else, one on a line, in   *)
(* the order in which they were added, a directory with / after its name,  *)
(* without the names that start with a dot unless -a is among the          *)
(* arguments; it leaves cwd and the tree as they are; a directory that     *)
(* mkdir or a finished git clone added to cwd is in the listing.           *)
(***************************************************************************)
\* the name of the node at q as ls shows it
Shown(q) == IF fileSystem[q].type = "directory" THEN q[Len(q)] \o "/" ELSE q[Len(q)]

\* the children of cwd that ls lists for the words w
Listed(w) ==
    {q \in childPaths(fileSystem, pathParts(cwd)) :
        (\E i \in 2..Len(w) : w[i] = "-a") \/ ~startsWith(q[Len(q)], ".")}

\* the step answers ls with the children listed, each at the place that
\* the order gives it: place(q, r) says that q comes before r
ListsInOrder(ln, listed, place(_, _)) ==
    \E out \in {OutputOfStep} :
    \E lines \in {IF out = "" THEN <<>> ELSE split(out, "\n")} :
        /\ IF listed = {} THEN Silent(ln) ELSE Answered(ln, out)
        /\ Len(lines) = Cardinality(listed)
        /\ \A q \in listed :
              lines[1 + Cardinality({r \in listed : place(r, q)})] = Shown(q)
        /\ TreeAndCwdKept
        /\ ~isLoading' /\ inflight' = inflight

\* q was added before r
AddedBefore(q, r) == fileSystem[q].ord < fileSystem[r].ord

\* q comes before r among the keys of a JavaScript object
KeyedBefore(q, r) ==
    \E a \in {q[Len(q)]}, b \in {r[Len(r)]} :
        IF isArrayIndex(a) /\ isArrayIndex(b) THEN numberBefore(a, b)
        ELSE IF isArrayIndex(a) THEN TRUE
        ELSE IF isArrayIndex(b) THEN FALSE
        ELSE AddedBefore(q, r)

C31_LsInsertionOrder ==
    [][Accepted => \E ln \in {line} : \E w \in {splitWhitespace(ln)} :
          Verb(w, "ls") => ListsInOrder(ln, Listed(w), AddedBefore)]_vars

\* what the code does: the names are the keys of the children object, and
\* Object.keys puts the names that are integers first, in ascending order
C31_LsKeyOrder ==
    [][Accepted => \E ln \in {line} : \E w \in {splitWhitespace(ln)} :
          Verb(w, "ls") => ListsInOrder(ln, Listed(w), KeyedBefore)]_vars

\* ls in /home/kali after mkdir 7: the new directory is listed first
C31_Witness ==
    /\ lastEvent = Event("handleFormSubmit", "ls")
    /\ cwd = "/home/kali"
    /\ Len(history) = 3
    /\ history[1] = commandItem("mkdir 7")
    /\ history[3] = outputItem("7/\nREADME.md\nchroot.py\nCyberpunk_QWERTY_(US).xml\ndocuments/\nprojects/")

(***************************************************************************)
(* C32: a submitted line that is empty or only whitespace appends nothing  *)
(* to history, does not set the busy flag, leaves cwd and the tree as they *)
(* are, and starts no simulator, built-in or call of the responder.        *)
(***************************************************************************)
C32_BlankLineIgnored ==
    [][(Accepted /\ line = "") =>
          /\ AppKept
          /\ initialCommandRun' = initialCommandRun]_vars

\* a line of spaces and a tab, submitted after the seed command and whoami
C32_Witness ==
    /\ lastEvent = Event("handleFormSubmit", " \t ")
    /\ ~isLoading
    /\ inflight = {}
    /\ commandLog(history) = <<"neofetch", "whoami">>

(***************************************************************************)
(* C33: the command log that the reverse search scans holds the lines that *)
(* were submitted for execution and are still in history, in the order of  *)
(* submission, and nothing else: text that was not submitted, such as the  *)
(* input that Tab echoes with its suggestions, does not enter the log and  *)
(* is not found by the search.                                             *)
(***************************************************************************)
\* the step is an accepted submission that puts its line at the end of the
\* log, or empties the log with clear
LogBySubmission(log, after) ==
    /\ Accepted
    /\ \/ after = Append(log, line)
       \/ toLowerCase(line) = "clear" /\ after = <<>>

\* the step is Tab putting the input, as typed, at the end of the log
LogByTab(log, after) == KeyStep("Tab") /\ after = Append(log, input)

C33_LogOnlySubmitted ==
    [][\E log \in {commandLog(history)}, after \in {commandLog(history')} :
          /\ after # log => LogBySubmission(log, after)
          /\ (Accepted /\ line # "" /\ toLowerCase(line) # "clear") => after = Append(log, line)]_vars

\* what the code does: Tab on a prefix of several entries of the vocabulary
\* appends the input as a command entry, which the log takes up
C33_LogOfCommandEntries ==
    [][\E log \in {commandLog(history)}, after \in {commandLog(history')} :
          /\ after # log => (LogBySubmission(log, after) \/ LogByTab(log, after))
          /\ (Accepted /\ line # "" /\ toLowerCase(line) # "clear") => after = Append(log, line)
          /\ TabOnSeveral(StartingWith(trim(input))) => LogByTab(log, after)]_vars

\* the search for g shows gi, which was typed and echoed by Tab and never
\* submitted
C33_Witness ==
    /\ isSearching
    /\ searchQuery = "g"
    /\ input = "gi"
    /\ commandLog(history) = <<"gi">>
    /\ history[2] = outputItem("git status   git log   git clone   git push   git pull   git branch   git commit   git diff   git fetch")

(***************************************************************************)
(* C34: in every tree that can be reached the name of every child is not   *)
(* empty, has no / in it and is neither . nor .., so that resolving the    *)
(* absolute path of a node from the root and looking the result up returns *)
(* the node; so for the directories of mkdir and of git clone, whatever    *)
(* the url is (git clone . and git clone .. among them).                   *)
(***************************************************************************)
\* the absolute path of the node at q
AbsolutePath(q) == "/" \o join(q, "/")

\* the lookup of the resolved absolute path of the node at q returns it
FoundByItsPath(q) ==
    \E r \in {getNode(fileSystem, resolvePath("/", AbsolutePath(q)))} :
        r.found /\ r.own /\ r.at = q

C34_NamesResolvable ==
    \A q \in DOMAIN fileSystem \ {<<>>} :
        /\ q[Len(q)] # ""
        /\ ~Occurs("/", q[Len(q)])
        /\ q[Len(q)] \notin {".", ".."}
        /\ FoundByItsPath(q)

\* what the code does: a directory named . or .. is the work of git clone,
\* and it and what is below it are the only nodes that their paths miss
C34_NamesButDots ==
    \A q \in DOMAIN fileSystem \ {<<>>} :
        /\ q[Len(q)] # ""
        /\ ~Occurs("/", q[Len(q)])
        /\ q[Len(q)] \in {".", ".."} =>
              /\ fileSystem[q].type = "directory"
              /\ Append(q, ".git") \in DOMAIN fileSystem
              /\ q \notin DOMAIN SeedTree
        /\ FoundByItsPath(q) <=> (\A i \in 1..Len(q) : q[i] \notin {".", ".."})

\* git clone . has finished in /home/kali
C34_Witness ==
    /\ lastEvent.handler = "timerFires"
    /\ inflight = {}
    /\ <<"home", "kali", ".">> \in DOMAIN fileSystem
    /\ <<"home", "kali", ".", "src", "main.js">> \in DOMAIN fileSystem

(***************************************************************************)
(* C35: git clone with no url argument takes the fixed fallback name and   *)
(* clones into a directory of that name; it does not stop with an error.   *)
(***************************************************************************)
\* line is git clone with nothing after it that could be a url
CloneWithoutUrl(ln) == startsWith(ln, "git clone") /\ Len(splitWhitespace(ln)) < 3

\* the last segment of the url of line, as split('/').pop() gives it
LastSegment(ln) ==
    Only({pieces[Len(pieces)] : pieces \in {split(splitWhitespace(ln)[3], "/")}})

\* the step refuses the clone, or starts it, under the name given
ClonesUnder(ln, name) ==
    IF getNode(fileSystem, cwd \o "/" \o name).found
    THEN CloneRefused(ln, name)
    ELSE CloneStarts(ln, name)

C35_NoUrlClonesFallback ==
    [][Accepted => \E ln \in {line} :
          CloneWithoutUrl(ln) => ClonesUnder(ln, "repository")]_vars

\* what the code does: without a url the answer is the fatal message and
\* nothing is cloned; the fallback name is for a url whose last segment is
\* empty or is .git alone
C35_NoUrlIsFatal ==
    [][Accepted => \E ln \in {line} :
          /\ CloneWithoutUrl(ln) =>
                /\ Answered(ln, "fatal: You must specify a repository to clone.")
                /\ TreeAndCwdKept
                /\ ~isLoading'
                /\ inflight' = inflight
          /\ (IsClone(ln) /\ LastSegment(ln) \in {"", ".git"}) => ClonesUnder(ln, "repository")]_vars

\* git clone alone was answered with the fatal message, after a clone of a
\* url that ends with a slash went into repository
C35_Witness ==
    /\ lastEvent = Event("handleFormSubmit", "git clone")
    /\ Len(history) = 4
    /\ history[1] = commandItem("git clone https://example.com/repo/")
    /\ history[4] = outputItem("fatal: You must specify a repository to clone.")
    /\ <<"home", "kali", "repository", ".git">> \in DOMAIN fileSystem
    /\ ~isLoading

(***************************************************************************)
(* C36: the repository name of git clone is the last segment of the url    *)
(* between slashes, without a .git at its end and with every other .git in *)
(* it kept, and the fixed fallback name when nothing is left.               *)
(***************************************************************************)
\* segment without the .git at its end
WithoutTrailing(segment) ==
    IF endsWith(segment, ".git") THEN SubSeq(segment, 1, Len(segment) - 4) ELSE segment

\* segment without the first .git in it
WithoutFirst(segment) ==
    IF ~Occurs(".git", segment) THEN segment
    ELSE \* the first place where .git stands
         LET i == CHOOSE k \in 1..Len(segment) :
                      /\ SubSeq(segment, k, k + 3) = ".git"
                      /\ \A j \in 1..(k - 1) : SubSeq(segment, j, j + 3) # ".git"
         IN SubSeq(segment, 1, i - 1) \o SubSeq(segment, i + 4, Len(segment))

OrFallback(name) == IF name = "" THEN "repository" ELSE name

C36_TrailingSuffixRemoved ==
    [][Accepted => \E ln \in {line} :
          IsClone(ln) => ClonesUnder(ln, OrFallback(WithoutTrailing(LastSegment(ln))))]_vars

\* what the code does: replace('.git', '') takes out the first .git of the
\* segment, wherever it stands
C36_FirstOccurrenceRemoved ==
    [][Accepted => \E ln \in {line} :
          IsClone(ln) => ClonesUnder(ln, OrFallback(WithoutFirst(LastSegment(ln))))]_vars

\* the clone of my.github.git has finished in a directory named myhub.git
C36_Witness ==
    /\ lastEvent.handler = "timerFires"
    /\ inflight = {}
    /\ history[1] = commandItem("git clone https://example.com/my.github.git")
    /\ startsWith(history[2].content, "Cloning into 'myhub.git'...")
    /\ childAt("myhub.git") \in DOMAIN fileSystem
    /\ childAt("my.github") \notin DOMAIN fileSystem

(***************************************************************************)
(* C37: git commit with -m and an empty message in quotes (-m "" or -m '') *)
(* is answered with the fatal message for an empty message, which is not   *)
(* the one for a missing -m, and with no hash; some line gets that answer. *)
(***************************************************************************)
EmptyMessage == "fatal: commit message is empty."

\* in ln a -m is followed by blanks and two quotes with nothing between them,
\* and no -m is followed by a message
HasEmptyMessage(ln) ==
    /\ \E i \in 1..Len(ln), j \in 1..(Len(ln) - 1), q \in {"\"", "'"} :
          /\ j > i + 2
          /\ SubSeq(ln, i, i + 1) = "-m"
          /\ \A x \in (i + 2)..(j - 1) : isSpace(charAt(ln, x))
          /\ SubSeq(ln, j, j + 1) = q \o q
    /\ ~HasQuotedMessage(ln)

C37_EmptyMessageFatal ==
    [][Accepted => \E ln \in {line} :
          (startsWith(ln, "git commit") /\ HasEmptyMessage(ln)) =>
              /\ Answered(ln, EmptyMessage)
              /\ EmptyMessage # MissingMessage]_vars

\* what the code does: the pattern wants one character at least between the
\* quotes, so the empty message is answered as a missing one, and no line
\* is answered with the text for the empty message
C37_EmptyMessageIsMissing ==
    [][Accepted => \E ln \in {line} : startsWith(ln, "git commit") =>
          /\ HasEmptyMessage(ln) =>
                /\ Answered(ln, MissingMessage)
                /\ TreeAndCwdKept
                /\ ~isLoading' /\ inflight' = inflight
          /\ OutputOfStep # EmptyMessage]_vars

\* git commit -m "" was answered as if -m were missing
C37_Witness ==
    /\ lastEvent = Event("handleFormSubmit", "git commit -m \"\"")
    /\ history = <<commandItem("git commit -m \"\""), outputItem(MissingMessage)>>

(***************************************************************************)
(* C38: a git clone that passed the check for an existing node and began   *)
(* to stream ends by making its directory: while it streams no step makes  *)
(* a node at its place or changes cwd, so createClonedDirectory finds the  *)
(* working directory and no child of the name, and the clone that wrote    *)
(* Resolving deltas has left its directory in the tree.                    *)
(***************************************************************************)
\* the place of the directory that the clone t is to make
PlaceOf(t) == Append(pathParts(t.cwd), t.repoName)

C38_StartedCloneMaterialises ==
    [][\A t \in inflight : t.kind = "clone" =>
          /\ cwd = t.cwd /\ cwd' = cwd
          /\ PlaceOf(t) \notin DOMAIN fileSystem
          /\ t.repoName \notin PrototypeKeys
          /\ IF TimerStepOf(t) /\ Len(t.pending) = 1
             THEN /\ lastEvent'.arg = "Resolving deltas: 100% (5/5), done."
                  /\ ClonedAt(fileSystem', PlaceOf(t))
                  /\ inflight' = {}
             ELSE /\ fileSystem' = fileSystem
                  /\ \E u \in inflight' : u.kind = "clone" /\ PlaceOf(u) = PlaceOf(t)]_vars

\* the clone of sample.git has made its directory; while it streamed, a
\* script had submitted mkdir sample, which was not accepted
C38_Witness ==
    /\ lastEvent = Event("timerFires", "Resolving deltas: 100% (5/5), done.")
    /\ input = "mkdir sample"
    /\ inflight = {}
    /\ childAt("sample") \in DOMAIN fileSystem
    /\ Append(Append(childAt("sample"), "src"), "main.js") \in DOMAIN fileSystem

(***************************************************************************)
(* C39: no command takes a node away or changes its type: a path that      *)
(* resolves to a directory (to a file) resolves to a directory (to a file) *)
(* in every later state; the root is never replaced; children are added by *)
(* mkdir and by git clone only; the content of a file changes through      *)
(* termux-fix-shebang only.                                                *)
(***************************************************************************)
\* the step is an accepted line whose first word is verb
StepOf(verb) == Accepted /\ Verb(splitWhitespace(line), verb)

\* the step is the last timer of a clone
CloneEnds == \E t \in inflight : TimerStepOf(t) /\ t.kind = "clone" /\ Len(t.pending) = 1

C39_NodesStay ==
    [][/\ \A p \in DOMAIN fileSystem :
              /\ p \in DOMAIN fileSystem'
              /\ fileSystem'[p].type = fileSystem[p].type
              /\ getNode(fileSystem', AbsolutePath(p)) = getNode(fileSystem, AbsolutePath(p))
              /\ fileSystem'[p].content # fileSystem[p].content =>
                    /\ StepOf("termux-fix-shebang")
                    /\ fileSystem[p].type = "file"
       /\ fileSystem'[<<>>].type = "directory"
       /\ DOMAIN fileSystem' # DOMAIN fileSystem =>
              /\ StepOf("mkdir") \/ CloneEnds
              /\ \A p \in DOMAIN fileSystem' \ DOMAIN fileSystem :
                    /\ p # <<>>
                    /\ pop(p) \in DOMAIN fileSystem'
                    /\ fileSystem'[pop(p)].type = "directory"]_vars

\* the shebang of chroot.py was rewritten after mkdir foo: every seed node
\* is where it was, with its type
C39_Witness ==
    /\ lastEvent = Event("handleFormSubmit", "termux-fix-shebang chroot.py")
    /\ startsWith(fileSystem[<<"home", "kali", "chroot.py">>].content, TermuxShebang)
    /\ fileSystem[<<"home", "kali", "chroot.py">>].content # SeedTree[<<"home", "kali", "chroot.py">>].content
    /\ <<"home", "kali", "foo">> \in DOMAIN fileSystem
    /\ \A p \in DOMAIN SeedTree : p \in DOMAIN fileSystem /\ fileSystem[p].type = SeedTree[p].type

(***************************************************************************)
(* C40: while the search is on, the search cursor is from 0 to the length  *)
(* of the command log, and the log neither shrinks nor changes, so the     *)
(* scan backward reads no place outside the log; so too when the search is *)
(* entered after clear or after Tab appended suggestion pairs.             *)
(***************************************************************************)
\* the scan from the cursor index backward stays in the log
CursorIn(index, log) ==
    /\ 0 <= index
    /\ index <= Len(log)
    /\ \A i \in 0..(index - 1) : i + 1 \in DOMAIN log

C40_CursorWithinLog ==
    [][\E log \in {commandLog(history)}, after \in {commandLog(history')} :
          /\ isSearching => CursorIn(searchIndex, log)
          /\ isSearching' => CursorIn(searchIndex', after)
          /\ (isSearching /\ isSearching') => after = log]_vars

\* the search, entered after ls and after Tab echoed gi, has found ls for
\* the query l at the oldest place of the log
C40_Witness ==
    /\ isSearching
    /\ searchQuery = "l"
    /\ input = "ls"
    /\ searchIndex = 0
    /\ commandLog(history) = <<"ls", "gi">>

====
